---- MODULE Spec2Model ----
(***************************************************************************)
(* PlanExe: the LLM fallback executor (planexe/llm_util/llm_executor.py),  *)
(* the conversation harness and SSE relay (planexe_api/streaming) and the  *)
(* conversation service that drives them (planexe_api/services).           *)
(***************************************************************************)
EXTENDS Naturals, Integers, Sequences, FiniteSets, TLC

\* ------------------------------------------------------------------ bounds
MaxModels == 3
MaxItems == 2
MaxConcurrent == 2
MaxBatchModels == 1
MaxCalls == 4
MaxHeartbeats == 1
MaxTurns == 3
MaxStreamEvents == 1
MaxFields == 2
MaxNameLen == 3
MaxRegistrations == 3
MaxTokens == 1
MaxTiers == 2
MaxThreshold == 2
MaxClock == 3

Items == 1..MaxItems
Models == 1..MaxModels

\* What one descriptor does for one unit of work: create_llm() raises, the
\* work raises, the work raises PipelineStopRequested, or the work returns.
Outcomes == {"create_fail", "work_fail", "work_stop", "ok"}
Unknown == "unknown"
NotRunning == 0
NoValue == <<>>

VARIABLES
    \* ---- LLMExecutor
    mode,                 \* which entry point is exercised: run, run_async, batch
    llm_models,           \* self.llm_models, the ordered descriptors
    should_stop_callback, \* TRUE when self.should_stop_callback is not None
    attempts,             \* self.attempts, the ledger (shared by all calls on the engine)
    execute_functions,    \* the work items handed in (item ids)
    arity,                \* arity[t]: number of parameters of work item t
    plan,                 \* plan[t][j]: what descriptor j does for item t
    pc,                   \* position of each call
    index,                \* loop variable of run / run_async (1-based)
    attempt,              \* the local variable attempt of each call
    ret,                  \* how each call ended
    running,              \* the call that holds the scheduler (no await reached yet)
    constructed,          \* descriptors whose create_llm() was called, per call
    invoked,              \* descriptors whose handle was passed to the work, per call
    cb_calls,             \* parameters and outcome of every stop-callback call, per call
    max_concurrent,       \* PLANEXE_MAX_CONCURRENT_LLM
    semaphore,            \* value of the asyncio.Semaphore
    waiters,              \* FIFO of calls blocked in semaphore.acquire()
    results,              \* what run_batch_async returned
    batch_pc,             \* position of the run_batch_async call
    completion_order,     \* the calls in the order they ended
    token_calls,          \* the set_last_attempt_tokens call made, if any
    \* ---- ConversationHarness
    response_id,          \* self.response_id, the turn the harness serves
    queue,                \* self._queue, the events not yet pulled
    queue_id,             \* which asyncio.Queue object self._queue is
    text_parts,           \* self._text_parts
    reasoning_parts,      \* self._reasoning_parts
    json_parts,           \* self._json_parts
    summary,              \* self._summary: <<>> for None, else <<summary>>
    completed,            \* self._completed is set
    calls,                \* every call made on the harness so far, in order
    \* ---- ConversationSSEManager._event_generator
    relay_pc,             \* idle, pulling, or stopped after a terminal event
    relay_wait,           \* the queue object a blocked queue.get() waits on, 0 if none
    delivered,            \* the events yielded to the listener by this generator
    \* ---- ConversationService, one ConversationSession
    status,               \* session.status
    stream_task,          \* session.stream_task: None, a pending task, or a done task
    task_pc,              \* position of the _run_responses_stream coroutine
    worker_pc,            \* position of the _stream_worker thread
    ready,                \* callbacks handed to the event loop, run in FIFO order
    turns,                \* append_message and stream starts so far
    stream_events,        \* events the backend stream has yielded to this worker
    history,              \* session.history, the turns of the conversation
    last_summary,         \* session.last_summary: <<>> for None, else <<summary>>
    expires_at,           \* session.expires_at, counted in renewals
    service_call,         \* the last append_message / get_harness call and how it ended
    \* ---- StrictResponseModel.model_validate, one call
    cls,                  \* cls.model_fields of the target type
    policy,               \* get_schema_policy(cls)
    obj,                  \* the payload handed to model_validate
    validation,           \* what model_validate returned or raised
    dumped,               \* model_dump() of the returned instance
    \* ---- sanitize_schema_label, one call and one call on its result
    raw_name,             \* the raw_name argument: <<>> for None, else <<string>>
    fallback,             \* the fallback argument
    label,                \* <<>> until called, then <<the label returned>>
    relabel,              \* <<>>, then <<the label of the label>>
    \* ---- schema registry
    registry,             \* _SCHEMA_REGISTRY: key -> <<>> or <<entry>>
    reg_calls,            \* every register_schema call so far and what it returned
    \* ---- AdaptiveRefreshScaler
    tiers,                \* self.tiers, sorted by __init__
    last_change_time,     \* self.last_change_time
    current_tier_index,   \* self.current_tier_index (0-based)
    now,                  \* time.time()
    scaler_call           \* the last get_interval / reset call and how it ended

execVars == <<mode, llm_models, should_stop_callback, attempts, execute_functions,
              arity, plan, pc, index, attempt, ret, running, constructed, invoked,
              cb_calls, max_concurrent, semaphore, waiters, results, batch_pc,
              completion_order, token_calls>>

harnessVars == <<response_id, queue, queue_id, text_parts, reasoning_parts, json_parts,
                 summary, completed, calls>>

relayVars == <<relay_pc, relay_wait, delivered>>

serviceVars == <<status, stream_task, task_pc, worker_pc, ready, turns, stream_events,
                 history, last_summary, expires_at, service_call>>

validateVars == <<cls, policy, obj, validation, dumped>>

registryVars == <<raw_name, fallback, label, relabel, registry, reg_calls>>

schemaVars == <<validateVars, registryVars>>

scalerVars == <<tiers, last_change_time, current_tier_index, now, scaler_call>>

vars == <<execVars, harnessVars, relayVars, serviceVars, schemaVars, scalerVars>>

\* ------------------------------------------------------------ LLMAttempt
\* The token fields are <<>> for None and <<n>> for a count.
LLMAttempt(stage, llm_model, success, result, exception) ==
    [stage |-> stage, llm_model |-> llm_model, success |-> success,
     result |-> result, exception |-> exception,
     input_tokens |-> <<>>, output_tokens |-> <<>>, total_tokens |-> <<>>]

NoAttempt == LLMAttempt("none", 0, FALSE, NoValue, "none")

\* The value the work of item t returns when run on descriptor j.
WorkResult(t, j) == <<t, j>>

NoRet == [kind |-> "none", value |-> NoValue, summary |-> <<>>]
RetResult(v) == [kind |-> "result", value |-> v, summary |-> <<>>]
RetStop == [kind |-> "stop", value |-> NoValue, summary |-> <<>>]
RetCallbackError == [kind |-> "callback_error", value |-> NoValue, summary |-> <<>>]
RetTypeError == [kind |-> "type_error", value |-> NoValue, summary |-> <<>>]

\* Mutant: a construction failure is reported with the stage of the work.
try_one_attempt_stage_execute(t, j, o) ==
    IF o = "ok"
    THEN [raised |-> FALSE, attempt |-> LLMAttempt("execute", j, TRUE, WorkResult(t, j), "none")]
    ELSE IF o = "work_stop"
    THEN [raised |-> TRUE, attempt |-> NoAttempt]
    ELSE [raised |-> FALSE, attempt |-> LLMAttempt("execute", j, FALSE, NoValue,
                                                   IF o = "create_fail" THEN "create_error"
                                                   ELSE "work_error")]

\* _try_one_attempt: the attempt a descriptor yields, or the cancellation
\* signal re-raised out of the work (no attempt is built then).
try_one_attempt(t, j, o) ==
    IF o = "create_fail"
    THEN [raised |-> FALSE, attempt |-> LLMAttempt("create", j, FALSE, NoValue, "create_error")]
    ELSE IF o = "ok"
    THEN [raised |-> FALSE, attempt |-> LLMAttempt("execute", j, TRUE, WorkResult(t, j), "none")]
    ELSE IF o = "work_stop"
    THEN [raised |-> TRUE, attempt |-> NoAttempt]
    ELSE [raised |-> FALSE, attempt |-> LLMAttempt("execute", j, FALSE, NoValue, "work_error")]

\* Mutant: the cancellation signal out of the awaited work is recorded as a
\* failed attempt instead of being re-raised.
try_one_attempt_async_no_reraise(t, j, o) ==
    IF o = "create_fail"
    THEN [raised |-> FALSE, attempt |-> LLMAttempt("create", j, FALSE, NoValue, "create_error")]
    ELSE IF o = "ok"
    THEN [raised |-> FALSE, attempt |-> LLMAttempt("execute", j, TRUE, WorkResult(t, j), "none")]
    ELSE [raised |-> FALSE, attempt |-> LLMAttempt("execute", j, FALSE, NoValue, "work_error")]

\* _try_one_attempt_async: the same steps with the work awaited.
try_one_attempt_async(t, j, o) ==
    IF o = "create_fail"
    THEN [raised |-> FALSE, attempt |-> LLMAttempt("create", j, FALSE, NoValue, "create_error")]
    ELSE IF o = "ok"
    THEN [raised |-> FALSE, attempt |-> LLMAttempt("execute", j, TRUE, WorkResult(t, j), "none")]
    ELSE IF o = "work_stop"
    THEN [raised |-> TRUE, attempt |-> NoAttempt]
    ELSE [raised |-> FALSE, attempt |-> LLMAttempt("execute", j, FALSE, NoValue, "work_error")]

TryOne(t, j, o) ==
    IF mode = "run" THEN try_one_attempt(t, j, o) ELSE try_one_attempt_async(t, j, o)

\* Mutant: an exception of the callback other than the signal is swallowed.
check_stop_callback_swallow_error(cb) ==
    IF should_stop_callback /\ cb # "error" THEN cb ELSE "none"

\* Mutant: the cancellation signal raised by the callback is swallowed.
check_stop_callback_swallow(cb) ==
    IF should_stop_callback /\ cb # "stop" THEN cb ELSE "none"

\* _check_stop_callback: what the callback does when there is one.
check_stop_callback(cb) == IF should_stop_callback THEN cb ELSE "none"

CallbackChoices == IF should_stop_callback THEN {"none", "stop", "error"} ELSE {"none"}

\* ShouldStopCallbackParameters, with what the callback did when called with them.
ShouldStopCallbackParameters(last_attempt, attempt_index, answer) ==
    [last_attempt |-> last_attempt, attempt_index |-> attempt_index,
     total_attempts |-> Len(llm_models), answer |-> answer]

\* _raise_final_exception: one row per attempt in the ledger at that moment.
raise_final_exception(atts) ==
    [kind |-> "exhausted", value |-> NoValue,
     summary |-> [i \in 1..Len(atts) |->
                    <<i - 1, atts[i].llm_model,
                      IF atts[i].success THEN "success" ELSE "failed",
                      atts[i].stage, atts[i].exception>>]]

\* _validate_execute_function
validate_execute_function(t) == arity[t] = 1

\* ------------------------------------------------- the end of one call
\* The call of item t ends with r. Under run_batch_async the call sits inside
\* "async with semaphore", so leaving it releases the semaphore, which hands
\* the permit to the first waiter if there is one.
Finish(t, r) ==
    /\ ret' = [ret EXCEPT ![t] = r]
    /\ completion_order' = Append(completion_order, t)
    /\ running' = NotRunning
    /\ IF mode = "batch"
       THEN IF waiters # <<>>
            THEN /\ pc' = [pc EXCEPT ![t] = "done", ![Head(waiters)] = "woken"]
                 /\ waiters' = Tail(waiters)
                 /\ UNCHANGED semaphore
            ELSE /\ pc' = [pc EXCEPT ![t] = "done"]
                 /\ semaphore' = semaphore + 1
                 /\ UNCHANGED waiters
       ELSE /\ pc' = [pc EXCEPT ![t] = "done"]
            /\ UNCHANGED <<semaphore, waiters>>

\* Mutant: a failed attempt ends the run at once instead of falling through.
AfterAttempt_no_fallthrough(t, att, cb) ==
    /\ attempts' = Append(attempts, att)
    /\ attempt' = [attempt EXCEPT ![t] = att]
    /\ cb_calls' = IF should_stop_callback
                   THEN [cb_calls EXCEPT ![t] = Append(@, ShouldStopCallbackParameters(att, index[t] - 1, cb))]
                   ELSE cb_calls
    /\ IF check_stop_callback(cb) = "stop"
       THEN Finish(t, RetStop) /\ UNCHANGED index
       ELSE IF check_stop_callback(cb) = "error"
       THEN Finish(t, RetCallbackError) /\ UNCHANGED index
       ELSE IF att.success
       THEN Finish(t, RetResult(att.result)) /\ UNCHANGED index
       ELSE Finish(t, raise_final_exception(attempts')) /\ UNCHANGED index

\* Mutant: a construction failure is skipped without being recorded.
AfterAttempt_drop_create(t, att, cb) ==
    /\ attempts' = IF att.stage = "create" THEN attempts ELSE Append(attempts, att)
    /\ attempt' = [attempt EXCEPT ![t] = att]
    /\ cb_calls' = IF should_stop_callback
                   THEN [cb_calls EXCEPT ![t] = Append(@, ShouldStopCallbackParameters(att, index[t] - 1, cb))]
                   ELSE cb_calls
    /\ IF check_stop_callback(cb) = "stop"
       THEN Finish(t, RetStop) /\ UNCHANGED index
       ELSE IF check_stop_callback(cb) = "error"
       THEN Finish(t, RetCallbackError) /\ UNCHANGED index
       ELSE IF att.success
       THEN Finish(t, RetResult(att.result)) /\ UNCHANGED index
       ELSE IF index[t] = Len(llm_models)
       THEN Finish(t, raise_final_exception(attempts')) /\ UNCHANGED index
       ELSE /\ index' = [index EXCEPT ![t] = index[t] + 1]
            /\ pc' = [pc EXCEPT ![t] = "loop"]
            /\ running' = t
            /\ UNCHANGED <<ret, semaphore, waiters, completion_order>>

\* The loop body of run / run_async after _try_one_attempt returned att:
\* append, check the callback, return on success, go on or raise at the end.
AfterAttempt(t, att, cb) ==
    /\ attempts' = Append(attempts, att)
    /\ attempt' = [attempt EXCEPT ![t] = att]
    /\ cb_calls' = IF should_stop_callback
                   THEN [cb_calls EXCEPT ![t] = Append(@, ShouldStopCallbackParameters(att, index[t] - 1, cb))]
                   ELSE cb_calls
    /\ IF check_stop_callback(cb) = "stop"
       THEN Finish(t, RetStop) /\ UNCHANGED index
       ELSE IF check_stop_callback(cb) = "error"
       THEN Finish(t, RetCallbackError) /\ UNCHANGED index
       ELSE IF att.success
       THEN Finish(t, RetResult(att.result)) /\ UNCHANGED index
       ELSE IF index[t] = Len(llm_models)
       THEN Finish(t, raise_final_exception(attempts')) /\ UNCHANGED index
       ELSE /\ index' = [index EXCEPT ![t] = index[t] + 1]
            /\ pc' = [pc EXCEPT ![t] = "loop"]
            /\ running' = t
            /\ UNCHANGED <<ret, semaphore, waiters, completion_order>>

\* Mutant: the ledger of the previous invocation is kept.
EnterRun_no_reset(t) ==
    IF validate_execute_function(t)
    THEN /\ attempts' = attempts
         /\ index' = [index EXCEPT ![t] = 1]
         /\ constructed' = [constructed EXCEPT ![t] = <<>>]
         /\ invoked' = [invoked EXCEPT ![t] = <<>>]
         /\ cb_calls' = [cb_calls EXCEPT ![t] = <<>>]
         /\ pc' = [pc EXCEPT ![t] = "loop"]
         /\ running' = t
         /\ UNCHANGED <<ret, semaphore, waiters, completion_order>>
    ELSE /\ Finish(t, RetTypeError)
         /\ UNCHANGED <<attempts, index, constructed, invoked, cb_calls>>

\* The first lines of run / run_async: validate, then reset the ledger.
EnterRun(t) ==
    IF validate_execute_function(t)
    THEN /\ attempts' = <<>>
         /\ index' = [index EXCEPT ![t] = 1]
         /\ constructed' = [constructed EXCEPT ![t] = <<>>]
         /\ invoked' = [invoked EXCEPT ![t] = <<>>]
         /\ cb_calls' = [cb_calls EXCEPT ![t] = <<>>]
         /\ pc' = [pc EXCEPT ![t] = "loop"]
         /\ running' = t
         /\ UNCHANGED <<ret, semaphore, waiters, completion_order>>
    ELSE /\ Finish(t, RetTypeError)
         /\ UNCHANGED <<attempts, index, constructed, invoked, cb_calls>>

\* ---------------------------------------------------------- run / run_async
\* A caller invokes run or run_async on the engine.
RunBegin(t) ==
    /\ mode \in {"run", "run_async"}
    /\ pc[t] = "idle"
    /\ running = NotRunning
    /\ EnterRun(t)
    /\ UNCHANGED <<token_calls, mode, llm_models, should_stop_callback, execute_functions, arity,
                   plan, attempt, max_concurrent, results, batch_pc>>
    /\ UNCHANGED <<harnessVars, relayVars, serviceVars, schemaVars, scalerVars>>

\* One loop iteration up to the point where the work is invoked: create_llm()
\* is called; when it raises the attempt is complete at once.
BeginAttempt(t) ==
    /\ pc[t] = "loop"
    /\ running = t
    /\ LET j == llm_models[index[t]] IN
       \E o \in (IF plan[t][j] = Unknown THEN Outcomes ELSE {plan[t][j]}) :
         /\ plan' = [plan EXCEPT ![t][j] = o]
         /\ constructed' = [constructed EXCEPT ![t] = Append(@, j)]
         /\ IF o = "create_fail"
            THEN /\ \E cb \in CallbackChoices : AfterAttempt(t, TryOne(t, j, o).attempt, cb)
                 /\ UNCHANGED invoked
            ELSE /\ invoked' = [invoked EXCEPT ![t] = Append(@, j)]
                 /\ pc' = [pc EXCEPT ![t] = "await"]
                 /\ running' = NotRunning
                 /\ UNCHANGED <<attempts, attempt, index, ret, semaphore, waiters, cb_calls,
                                completion_order>>
    /\ UNCHANGED <<token_calls, mode, llm_models, should_stop_callback, execute_functions, arity,
                   max_concurrent, results, batch_pc>>
    /\ UNCHANGED <<harnessVars, relayVars, serviceVars, schemaVars, scalerVars>>

\* The work returns or raises; the rest of the loop iteration follows.
FinishAttempt(t) ==
    /\ pc[t] = "await"
    /\ running = NotRunning
    /\ LET j == llm_models[index[t]]
           r == TryOne(t, j, plan[t][j])
       IN IF r.raised
          THEN /\ Finish(t, RetStop)
               /\ UNCHANGED <<attempts, attempt, index, cb_calls>>
          ELSE \E cb \in CallbackChoices : AfterAttempt(t, r.attempt, cb)
    /\ UNCHANGED <<token_calls, mode, llm_models, should_stop_callback, execute_functions, arity,
                   plan, constructed, invoked, max_concurrent, results, batch_pc>>
    /\ UNCHANGED <<harnessVars, relayVars, serviceVars, schemaVars, scalerVars>>

\* -------------------------------------------------- run as a function
\* LLMExecutor.run from descriptor i on, as a function of the outcomes in
\* plan[t] and of what the callback answers at each attempt (answers): how the
\* call ends and the ledger it leaves.
RECURSIVE run(_, _, _, _)
run(t, i, ledger, answers) ==
    IF i > Len(llm_models)
    THEN [ret |-> raise_final_exception(ledger), attempts |-> ledger]
    ELSE LET r == try_one_attempt(t, llm_models[i], plan[t][llm_models[i]])
             appended == Append(ledger, r.attempt)
             cb == IF i <= Len(answers) THEN answers[i] ELSE "none"
         IN  IF r.raised THEN [ret |-> RetStop, attempts |-> ledger]
             ELSE IF check_stop_callback(cb) = "stop"
             THEN [ret |-> RetStop, attempts |-> appended]
             ELSE IF check_stop_callback(cb) = "error"
             THEN [ret |-> RetCallbackError, attempts |-> appended]
             ELSE IF r.attempt.success
             THEN [ret |-> RetResult(r.attempt.result), attempts |-> appended]
             ELSE run(t, i + 1, appended, answers)

\* ------------------------------------------------ set_last_attempt_tokens
\* Mutant: the success of the last attempt is not looked at.
set_last_attempt_tokens_any(input_tokens, output_tokens, total_tokens) ==
    IF attempts = <<>> THEN attempts
    ELSE [attempts EXCEPT ![Len(attempts)] =
            [@ EXCEPT !.input_tokens = <<input_tokens>>,
                      !.output_tokens = <<output_tokens>>,
                      !.total_tokens = IF total_tokens # <<>> THEN total_tokens
                                       ELSE <<input_tokens + output_tokens>>]]

\* set_last_attempt_tokens: the ledger it leaves; total_tokens is <<>> for None.
set_last_attempt_tokens(input_tokens, output_tokens, total_tokens) ==
    IF attempts = <<>> THEN attempts
    ELSE IF ~attempts[Len(attempts)].success THEN attempts
    ELSE [attempts EXCEPT ![Len(attempts)] =
            [@ EXCEPT !.input_tokens = <<input_tokens>>,
                      !.output_tokens = <<output_tokens>>,
                      !.total_tokens = IF total_tokens # <<>> THEN total_tokens
                                       ELSE <<input_tokens + output_tokens>>]]

TokenCounts == 0..MaxTokens

\* A caller annotates the ledger once, before or after the invocation; the
\* call returns None.
SetLastAttemptTokens ==
    /\ mode \in {"run", "run_async"}
    /\ running = NotRunning
    /\ \A t \in Items : pc[t] \notin {"loop", "await"}
    /\ token_calls = <<>>
    /\ \E input_tokens \in TokenCounts, output_tokens \in TokenCounts,
          total_tokens \in {<<>>} \cup {<<n>> : n \in TokenCounts} :
          /\ attempts' = set_last_attempt_tokens(input_tokens, output_tokens, total_tokens)
          /\ token_calls' = Append(token_calls,
                                   [input_tokens |-> input_tokens,
                                    output_tokens |-> output_tokens,
                                    total_tokens |-> total_tokens,
                                    raised |-> FALSE])
    /\ UNCHANGED <<mode, llm_models, should_stop_callback, execute_functions, arity, plan,
                   pc, index, attempt, ret, running, constructed, invoked, cb_calls,
                   max_concurrent, semaphore, waiters, results, batch_pc, completion_order>>
    /\ UNCHANGED <<harnessVars, relayVars, serviceVars, schemaVars, scalerVars>>

\* ------------------------------------------------------- run_batch_async
ItemsOf(fs) == {fs[i] : i \in 1..Len(fs)}

\* asyncio.gather(*tasks, return_exceptions=True): slot i is what task i ended with.
gather(fs) == [i \in 1..Len(fs) |-> ret[fs[i]]]

\* Calls that hold a permit of the semaphore.
InFlight == {t \in Items : pc[t] \in {"acquired", "woken", "loop", "await"}}

\* run_batch_async up to the gather: nothing to do for an empty list, every
\* work item validated, then the semaphore and one task per item.
BatchBegin ==
    /\ mode = "batch"
    /\ batch_pc = "idle"
    /\ IF execute_functions = <<>>
       THEN /\ batch_pc' = "returned"
            /\ results' = <<>>
            /\ UNCHANGED <<semaphore, pc>>
       ELSE IF \E t \in ItemsOf(execute_functions) : ~validate_execute_function(t)
       THEN /\ batch_pc' = "type_error"
            /\ UNCHANGED <<semaphore, pc, results>>
       ELSE /\ semaphore' = max_concurrent
            /\ pc' = [t \in Items |-> IF t \in ItemsOf(execute_functions) THEN "new" ELSE pc[t]]
            /\ batch_pc' = "gathering"
            /\ UNCHANGED results
    /\ UNCHANGED <<token_calls, mode, llm_models, should_stop_callback, attempts, execute_functions,
                   arity, plan, index, attempt, ret, running, constructed, invoked,
                   cb_calls, max_concurrent, waiters, completion_order>>
    /\ UNCHANGED <<harnessVars, relayVars, serviceVars, schemaVars, scalerVars>>

\* Mutant: the task takes a permit without looking at the semaphore's value.
Acquire_unbounded(t) ==
    /\ mode = "batch"
    /\ batch_pc = "gathering"
    /\ pc[t] = "new"
    /\ running = NotRunning
    /\ \A u \in Items : u < t => pc[u] # "new"
    /\ semaphore' = semaphore - 1
    /\ pc' = [pc EXCEPT ![t] = "acquired"]
    /\ running' = t
    /\ UNCHANGED waiters
    /\ UNCHANGED <<token_calls, mode, llm_models, should_stop_callback, attempts, execute_functions,
                   arity, plan, index, attempt, ret, constructed, invoked, cb_calls,
                   max_concurrent, results, batch_pc, completion_order>>
    /\ UNCHANGED <<harnessVars, relayVars, serviceVars, schemaVars, scalerVars>>

\* run_with_semaphore starts: "async with semaphore" takes a permit if one is
\* free, else the task queues up behind the earlier waiters. Tasks start in the
\* order gather created them.
Acquire(t) ==
    /\ mode = "batch"
    /\ batch_pc = "gathering"
    /\ pc[t] = "new"
    /\ running = NotRunning
    /\ \A u \in Items : u < t => pc[u] # "new"
    /\ IF semaphore > 0 /\ waiters = <<>>
       THEN /\ semaphore' = semaphore - 1
            /\ pc' = [pc EXCEPT ![t] = "acquired"]
            /\ running' = t
            /\ UNCHANGED waiters
       ELSE /\ waiters' = Append(waiters, t)
            /\ pc' = [pc EXCEPT ![t] = "semwait"]
            /\ UNCHANGED <<semaphore, running>>
    /\ UNCHANGED <<token_calls, mode, llm_models, should_stop_callback, attempts, execute_functions,
                   arity, plan, index, attempt, ret, constructed, invoked, cb_calls,
                   max_concurrent, results, batch_pc, completion_order>>
    /\ UNCHANGED <<harnessVars, relayVars, serviceVars, schemaVars, scalerVars>>

\* Holding a permit, the task enters run_async.
RunAsyncBegin(t) ==
    /\ mode = "batch"
    /\ \/ pc[t] = "acquired" /\ running = t
       \/ pc[t] = "woken" /\ running = NotRunning
    /\ EnterRun(t)
    /\ UNCHANGED <<token_calls, mode, llm_models, should_stop_callback, execute_functions, arity,
                   plan, attempt, max_concurrent, results, batch_pc>>
    /\ UNCHANGED <<harnessVars, relayVars, serviceVars, schemaVars, scalerVars>>

\* Mutant: gather hands the outcomes back in reverse order.
BatchReturn_reversed ==
    /\ mode = "batch"
    /\ batch_pc = "gathering"
    /\ running = NotRunning
    /\ \A t \in ItemsOf(execute_functions) : pc[t] = "done"
    /\ results' = [i \in 1..Len(execute_functions) |->
                     gather(execute_functions)[Len(execute_functions) + 1 - i]]
    /\ batch_pc' = "returned"
    /\ UNCHANGED <<token_calls, mode, llm_models, should_stop_callback, attempts, execute_functions,
                   arity, plan, pc, index, attempt, ret, running, constructed, invoked,
                   cb_calls, max_concurrent, semaphore, waiters, completion_order>>
    /\ UNCHANGED <<harnessVars, relayVars, serviceVars, schemaVars, scalerVars>>

\* Every task has finished: gather returns and run_batch_async returns the list.
BatchReturn ==
    /\ mode = "batch"
    /\ batch_pc = "gathering"
    /\ running = NotRunning
    /\ \A t \in ItemsOf(execute_functions) : pc[t] = "done"
    /\ results' = gather(execute_functions)
    /\ batch_pc' = "returned"
    /\ UNCHANGED <<token_calls, mode, llm_models, should_stop_callback, attempts, execute_functions,
                   arity, plan, pc, index, attempt, ret, running, constructed, invoked,
                   cb_calls, max_concurrent, semaphore, waiters, completion_order>>
    /\ UNCHANGED <<harnessVars, relayVars, serviceVars, schemaVars, scalerVars>>

\* ------------------------------------------------- ConversationHarness
Kinds == {"text", "reasoning", "json", "other"}
UsageArgs == {"None", "u1"}
Newline == "\n"

\* ConversationHarness.__init__
HarnessInit ==
    /\ response_id = 1
    /\ queue = <<>>
    /\ queue_id = 1
    /\ text_parts = <<>>
    /\ reasoning_parts = <<>>
    /\ json_parts = <<>>
    /\ summary = <<>>
    /\ completed = FALSE
    /\ calls = <<>>

RelayInit ==
    /\ relay_pc = "idle"
    /\ relay_wait = 0
    /\ delivered = <<>>

\* No conversation exists (the executor specifications).
HarnessUnused == HarnessInit /\ RelayInit

\* "".join(parts)
RECURSIVE Join(_)
Join(parts) == IF parts = <<>> THEN <<>> ELSE Head(parts) \o Join(Tail(parts))

\* sep.join(parts)
RECURSIVE JoinWith(_, _)
JoinWith(sep, parts) ==
    IF parts = <<>> THEN <<>>
    ELSE IF Len(parts) = 1 THEN Head(parts)
    ELSE Head(parts) \o <<sep>> \o JoinWith(sep, Tail(parts))

ConversationSummary(text, reasoning, json_chunks, usage) ==
    [text |-> text, reasoning |-> reasoning, json_chunks |-> json_chunks, usage |-> usage]

\* One queued payload; the fields an event does not carry are left empty.
Event(name, kind, delta, summ, error) ==
    [event |-> name, responseId |-> response_id, kind |-> kind, delta |-> delta,
     summary |-> summ, error |-> error]

Call(op, kind, delta, usage) == [op |-> op, kind |-> kind, delta |-> delta, usage |-> usage]

IsTerminal(e) == e.event \in {"stream.complete", "stream.error"}

\* Mutant: the queue object is kept, with what is on it.
reset_for_response_keep_queue(rid) ==
    /\ response_id' = rid
    /\ text_parts' = <<>>
    /\ reasoning_parts' = <<>>
    /\ json_parts' = <<>>
    /\ summary' = <<>>
    /\ completed' = FALSE
    /\ UNCHANGED <<queue, queue_id>>
    /\ calls' = Append(calls, Call("reset", "", <<>>, "None"))

\* reset_for_response
reset_for_response(rid) ==
    /\ response_id' = rid
    /\ text_parts' = <<>>
    /\ reasoning_parts' = <<>>
    /\ json_parts' = <<>>
    /\ summary' = <<>>
    /\ completed' = FALSE
    /\ queue' = <<>>
    /\ queue_id' = queue_id + 1
    /\ calls' = Append(calls, Call("reset", "", <<>>, "None"))

\* emit_init
emit_init ==
    /\ queue' = Append(queue, Event("stream.init", "", <<>>, <<>>, ""))
    /\ calls' = Append(calls, Call("init", "", <<>>, "None"))
    /\ UNCHANGED <<response_id, queue_id, text_parts, reasoning_parts, json_parts,
                   summary, completed>>

\* Mutant: the last branch is an else, any kind that is neither text nor
\* reasoning lands in the json buffer.
emit_chunk_else_json(kind, delta) ==
    /\ text_parts' = IF kind = "text" THEN Append(text_parts, delta) ELSE text_parts
    /\ reasoning_parts' = IF kind = "reasoning" THEN Append(reasoning_parts, delta)
                          ELSE reasoning_parts
    /\ json_parts' = IF kind \notin {"text", "reasoning"} THEN Append(json_parts, delta)
                     ELSE json_parts
    /\ queue' = Append(queue, Event("stream.chunk", kind, delta, <<>>, ""))
    /\ calls' = Append(calls, Call("chunk", kind, delta, "None"))
    /\ UNCHANGED <<response_id, queue_id, summary, completed>>

\* emit_chunk
emit_chunk(kind, delta) ==
    /\ text_parts' = IF kind = "text" THEN Append(text_parts, delta) ELSE text_parts
    /\ reasoning_parts' = IF kind = "reasoning" THEN Append(reasoning_parts, delta)
                          ELSE reasoning_parts
    /\ json_parts' = IF kind = "json" THEN Append(json_parts, delta) ELSE json_parts
    /\ queue' = Append(queue, Event("stream.chunk", kind, delta, <<>>, ""))
    /\ calls' = Append(calls, Call("chunk", kind, delta, "None"))
    /\ UNCHANGED <<response_id, queue_id, summary, completed>>

\* emit_complete
emit_complete(usage) ==
    LET s == ConversationSummary(Join(text_parts),
                                 IF reasoning_parts # <<>>
                                 THEN <<JoinWith(Newline, reasoning_parts)>> ELSE <<>>,
                                 json_parts, usage)
    IN /\ summary' = <<s>>
       /\ queue' = Append(queue,
             Event("stream.complete", "", <<>>,
                   <<[s EXCEPT !.usage = IF usage = "None" THEN "empty" ELSE usage]>>, ""))
       /\ completed' = TRUE
       /\ calls' = Append(calls, Call("complete", "", <<>>, usage))
       /\ UNCHANGED <<response_id, queue_id, text_parts, reasoning_parts, json_parts>>

\* emit_error
\* Mutant: the error event jumps the queue.
emit_error_first(error) ==
    /\ queue' = <<Event("stream.error", "", <<>>, <<>>, error)>> \o queue
    /\ completed' = TRUE
    /\ calls' = Append(calls, Call("error", "", <<>>, "None"))
    /\ UNCHANGED <<response_id, queue_id, text_parts, reasoning_parts, json_parts, summary>>

\* wait_until_complete: true when the completion event is set, false on timeout.
wait_until_complete == completed

emit_error(error) ==
    /\ queue' = Append(queue, Event("stream.error", "", <<>>, <<>>, error))
    /\ completed' = TRUE
    /\ calls' = Append(calls, Call("error", "", <<>>, "None"))
    /\ UNCHANGED <<response_id, queue_id, text_parts, reasoning_parts, json_parts, summary>>

\* ------------------------------- ConversationSSEManager._event_generator
Heartbeat == [event |-> "heartbeat", responseId |-> 0, kind |-> "", delta |-> <<>>,
              summary |-> <<>>, error |-> ""]

HeartbeatsIn(seq) == Cardinality({i \in 1..Len(seq) : seq[i].event = "heartbeat"})

\* build_response: a listener is attached to a new generator over the harness.
RelayConnect ==
    /\ relay_pc \in {"idle", "stopped"}
    /\ relay_pc' = "pulling"
    /\ relay_wait' = 0
    /\ delivered' = <<>>
    /\ UNCHANGED <<harnessVars, execVars, serviceVars, schemaVars, scalerVars>>

\* Mutant: the generator goes on pulling after it forwarded a terminal event.
Forward_no_break(e) ==
    /\ delivered' = Append(delivered, e)
    /\ relay_pc' = "pulling"
    /\ relay_wait' = 0

\* The generator yields e; complete or error ends the loop.
Forward(e) ==
    /\ delivered' = Append(delivered, e)
    /\ relay_pc' = IF IsTerminal(e) THEN "stopped" ELSE "pulling"
    /\ relay_wait' = 0

\* harness.queue.get(): an event is there and is yielded, or the call blocks
\* on the queue object the harness holds at that moment.
RelayGet ==
    /\ relay_pc = "pulling"
    /\ relay_wait = 0
    /\ IF queue # <<>>
       THEN /\ Forward(Head(queue))
            /\ queue' = Tail(queue)
       ELSE /\ relay_wait' = queue_id
            /\ UNCHANGED <<relay_pc, delivered, queue>>
    /\ UNCHANGED <<response_id, queue_id, text_parts, reasoning_parts, json_parts,
                   summary, completed, calls, execVars, serviceVars, schemaVars, scalerVars>>

\* Mutant: the event that arrives while the timeout fires is taken off the
\* queue and dropped.
RelayWake_lossy ==
    /\ relay_pc = "pulling"
    /\ relay_wait = queue_id
    /\ queue # <<>>
    /\ queue' = Tail(queue)
    /\ relay_wait' = 0
    /\ UNCHANGED <<relay_pc, delivered>>
    /\ UNCHANGED <<response_id, queue_id, text_parts, reasoning_parts, json_parts,
                   summary, completed, calls, execVars, serviceVars, schemaVars, scalerVars>>

\* An event arrives on the queue object the blocked get() waits on.
RelayWake ==
    /\ relay_pc = "pulling"
    /\ relay_wait = queue_id
    /\ queue # <<>>
    /\ Forward(Head(queue))
    /\ queue' = Tail(queue)
    /\ UNCHANGED <<response_id, queue_id, text_parts, reasoning_parts, json_parts,
                   summary, completed, calls, execVars, serviceVars, schemaVars, scalerVars>>

\* asyncio.TimeoutError: nothing arrived on that queue object within the
\* heartbeat interval, a heartbeat is yielded and the loop goes on.
RelayHeartbeat ==
    /\ relay_pc = "pulling"
    /\ relay_wait # 0
    /\ relay_wait # queue_id \/ queue = <<>>
    /\ HeartbeatsIn(delivered) < MaxHeartbeats
    /\ delivered' = Append(delivered, Heartbeat)
    /\ relay_wait' = 0
    /\ UNCHANGED <<relay_pc, harnessVars, execVars, serviceVars, schemaVars, scalerVars>>

\* ------------------------------------------------- ConversationService
\* ConversationTurn: the role and, for an assistant turn, the summary it records.
UserTurn == <<"user">>

AssistantTurn(s) == <<"assistant", s>>

\* self._sessions holds one session, under conversation id 1; callers also
\* present an id no session has.
Sessions == {1}

ConversationIds == {1, 2}

NoServiceCall == <<>>

ServiceCall(op, conversation_id, outcome) == <<op, conversation_id, outcome>>

\* create_session: a session exists with the prompt as its first user turn, its
\* harness is constructed, no stream yet.
ServiceInit ==
    /\ status = "created"
    /\ stream_task = "None"
    /\ task_pc = "none"
    /\ worker_pc = "idle"
    /\ ready = <<>>
    /\ turns = 0
    /\ stream_events = 0
    /\ history = <<UserTurn>>
    /\ last_summary = <<>>
    /\ expires_at = 0
    /\ service_call = NoServiceCall

\* No conversation service runs (the executor and harness specifications).
ServiceUnused ==
    /\ status = "created"
    /\ stream_task = "None"
    /\ task_pc = "none"
    /\ worker_pc = "idle"
    /\ ready = <<>>
    /\ turns = 0
    /\ stream_events = 0
    /\ history = <<>>
    /\ last_summary = <<>>
    /\ expires_at = 0
    /\ service_call = NoServiceCall

\* Mutant: the coroutine is put in front of what the loop still has to run.
run_coroutine_threadsafe_front(q, c) == <<c>> \o q

\* asyncio.run_coroutine_threadsafe(coro, self._loop): the coroutine is handed
\* to the loop and runs after everything handed over before it.
run_coroutine_threadsafe(q, c) == Append(q, c)

emit_init_from_worker(q) == run_coroutine_threadsafe(q, Call("init", "", <<>>, "None"))

emit_chunk_from_worker(q, kind, delta) ==
    run_coroutine_threadsafe(q, Call("chunk", kind, delta, "None"))

emit_complete_from_worker(q, usage) ==
    run_coroutine_threadsafe(q, Call("complete", "", <<>>, usage))

emit_error_from_worker(q) == run_coroutine_threadsafe(q, Call("error", "", <<>>, "None"))

\* ConversationEventHandler.handle_*_sync: each hands the matching harness
\* emit over to the owning loop.
handle_init_sync(q) == emit_init_from_worker(q)

handle_output_delta_sync(q, delta) == emit_chunk_from_worker(q, "text", delta)

handle_reasoning_delta_sync(q, delta) == emit_chunk_from_worker(q, "reasoning", delta)

handle_json_delta_sync(q, delta) == emit_chunk_from_worker(q, "json", delta)

handle_complete_sync(q, usage) == emit_complete_from_worker(q, usage)

handle_error_sync(q) == emit_error_from_worker(q)

\* The to_thread future resolves: the loop is told after every emit the
\* worker handed over before it ended.
WorkerDone(outcome) == [op |-> "worker_done", kind |-> outcome, delta |-> <<>>, usage |-> "None"]

\* Mutant: the new response id is assigned and the harness reset before the
\* stream task is looked at.
append_message_reset_first(conversation_id) ==
    /\ turns < MaxTurns
    /\ IF conversation_id \notin Sessions
       THEN /\ service_call' = ServiceCall("append_message", conversation_id,
                                           "ValueError: Conversation session not found")
            /\ UNCHANGED <<status, turns, history, expires_at, harnessVars>>
       ELSE IF stream_task = "pending"
       THEN /\ reset_for_response(response_id + 1)
            /\ service_call' = ServiceCall("append_message", conversation_id,
                                           "ValueError: Conversation response still streaming")
            /\ UNCHANGED <<status, turns, history, expires_at>>
       ELSE /\ reset_for_response(response_id + 1)
            /\ status' = "created"
            /\ history' = Append(history, UserTurn)
            /\ expires_at' = expires_at + 1
            /\ turns' = turns + 1
            /\ service_call' = ServiceCall("append_message", conversation_id, "metadata")
    /\ UNCHANGED <<stream_task, task_pc, worker_pc, ready, stream_events, last_summary>>
    /\ UNCHANGED <<relayVars, execVars, schemaVars, scalerVars>>

\* append_message: the two checks raise before anything is touched; otherwise
\* a new response id, the harness reset, one user turn and a new expiry.
append_message(conversation_id) ==
    /\ turns < MaxTurns
    /\ IF conversation_id \notin Sessions
       THEN /\ service_call' = ServiceCall("append_message", conversation_id,
                                           "ValueError: Conversation session not found")
            /\ UNCHANGED <<status, turns, history, expires_at, harnessVars>>
       ELSE IF stream_task = "pending"
       THEN /\ service_call' = ServiceCall("append_message", conversation_id,
                                           "ValueError: Conversation response still streaming")
            /\ UNCHANGED <<status, turns, history, expires_at, harnessVars>>
       ELSE /\ reset_for_response(response_id + 1)
            /\ status' = "created"
            /\ history' = Append(history, UserTurn)
            /\ expires_at' = expires_at + 1
            /\ turns' = turns + 1
            /\ service_call' = ServiceCall("append_message", conversation_id, "metadata")
    /\ UNCHANGED <<stream_task, task_pc, worker_pc, ready, stream_events, last_summary>>
    /\ UNCHANGED <<relayVars, execVars, schemaVars, scalerVars>>

\* Mutant: the stream task of the session is not looked at.
should_start_any_task == status \in {"created", "streaming"}

\* should_start of get_harness
should_start ==
    /\ status \in {"created", "streaming"}
    /\ stream_task \in {"None", "done"}

\* get_harness: resets the harness and creates the stream task when
\* should_start holds; otherwise it only returns the harness.
get_harness(conversation_id) ==
    /\ turns < MaxTurns
    /\ IF conversation_id \notin Sessions
       THEN /\ service_call' = ServiceCall("get_harness", conversation_id,
                                           "ValueError: Conversation session not found")
            /\ UNCHANGED <<status, stream_task, task_pc, turns, harnessVars>>
       ELSE IF should_start
       THEN /\ reset_for_response(response_id)
            /\ status' = "streaming"
            /\ stream_task' = "pending"
            /\ task_pc' = "start"
            /\ turns' = turns + 1
            /\ service_call' = ServiceCall("get_harness", conversation_id, "harness")
       ELSE /\ service_call' = ServiceCall("get_harness", conversation_id, "harness")
            /\ UNCHANGED <<status, stream_task, task_pc, turns, harnessVars>>
    /\ UNCHANGED <<worker_pc, ready, stream_events, history, last_summary, expires_at>>
    /\ UNCHANGED <<relayVars, execVars, schemaVars, scalerVars>>

\* _run_responses_stream up to its first await: _prepare_llm raises and the
\* task ends with that exception, or the init emit is handed over and the
\* worker thread is started.
RunResponsesStreamBegin ==
    /\ task_pc = "start"
    /\ \E prepared \in BOOLEAN :
          IF prepared
          THEN /\ ready' = handle_init_sync(ready)
               /\ task_pc' = "to_thread"
               /\ worker_pc' = "open"
               /\ stream_events' = 0
               /\ UNCHANGED <<status, stream_task>>
          ELSE /\ task_pc' = "raised"
               /\ stream_task' = "done"
               /\ UNCHANGED <<status, worker_pc, ready, stream_events>>
    /\ UNCHANGED <<turns, history, last_summary, expires_at, service_call>>
    /\ UNCHANGED <<harnessVars, relayVars, execVars, schemaVars, scalerVars>>

\* _stream_worker: llm._client.responses.stream(...) opens or raises.
WorkerOpen ==
    /\ worker_pc = "open"
    /\ \E opened \in BOOLEAN : worker_pc' = IF opened THEN "events" ELSE "except"
    /\ UNCHANGED <<status, stream_task, task_pc, ready, turns, stream_events>>
    /\ UNCHANGED <<history, last_summary, expires_at, service_call>>
    /\ UNCHANGED <<harnessVars, relayVars, execVars, schemaVars, scalerVars>>

StreamEvents == {"text", "reasoning", "json", "ignored", "failed", "raise"}

\* _stream_worker: one iteration of `for event in stream`.
WorkerEvent ==
    /\ worker_pc = "events"
    /\ stream_events < MaxStreamEvents
    /\ stream_events' = stream_events + 1
    /\ \E ev \in StreamEvents :
          LET delta == <<ToString(stream_events + 1)>>
          IN  /\ ready' = CASE ev = "text" -> handle_output_delta_sync(ready, delta)
                            [] ev = "reasoning" -> handle_reasoning_delta_sync(ready, delta)
                            [] ev = "json" -> handle_json_delta_sync(ready, delta)
                            [] ev = "failed" -> handle_error_sync(ready)
                            [] OTHER -> ready
              /\ worker_pc' = IF ev \in {"failed", "raise"} THEN "except" ELSE "events"
    /\ UNCHANGED <<status, stream_task, task_pc, turns>>
    /\ UNCHANGED <<history, last_summary, expires_at, service_call>>
    /\ UNCHANGED <<harnessVars, relayVars, execVars, schemaVars, scalerVars>>

\* _stream_worker: the stream ends; the final response is read (which can
\* raise), the complete emit is handed over and the payload returned.
WorkerEnd ==
    /\ worker_pc = "events"
    /\ \E final_ok \in BOOLEAN :
          IF final_ok
          THEN /\ \E usage \in UsageArgs :
                     ready' = Append(handle_complete_sync(ready, usage), WorkerDone("returned"))
               /\ worker_pc' = "idle"
          ELSE /\ worker_pc' = "except"
               /\ UNCHANGED ready
    /\ UNCHANGED <<status, stream_task, task_pc, turns, stream_events>>
    /\ UNCHANGED <<history, last_summary, expires_at, service_call>>
    /\ UNCHANGED <<harnessVars, relayVars, execVars, schemaVars, scalerVars>>

\* _stream_worker: except APIError / except Exception: hand over an error
\* emit and re-raise.
WorkerExcept ==
    /\ worker_pc = "except"
    /\ ready' = Append(handle_error_sync(ready), WorkerDone("raised"))
    /\ worker_pc' = "idle"
    /\ UNCHANGED <<status, stream_task, task_pc, turns, stream_events>>
    /\ UNCHANGED <<history, last_summary, expires_at, service_call>>
    /\ UNCHANGED <<harnessVars, relayVars, execVars, schemaVars, scalerVars>>

\* The loop runs the emit coroutine at the head of its ready queue.
LoopEmit ==
    /\ ready # <<>>
    /\ Head(ready).op # "worker_done"
    /\ LET c == Head(ready)
       IN  CASE c.op = "init" -> emit_init
             [] c.op = "chunk" -> emit_chunk(c.kind, c.delta)
             [] c.op = "complete" -> emit_complete(c.usage)
             [] c.op = "error" -> emit_error("failed")
    /\ ready' = Tail(ready)
    /\ UNCHANGED <<status, stream_task, task_pc, worker_pc, turns, stream_events>>
    /\ UNCHANGED <<history, last_summary, expires_at, service_call>>
    /\ UNCHANGED <<relayVars, execVars, schemaVars, scalerVars>>

\* _run_responses_stream resumes from asyncio.to_thread: with the payload it
\* goes on to wait_until_complete, with the worker's exception it runs the
\* except and finally blocks.
RunResponsesStreamResume ==
    /\ task_pc = "to_thread"
    /\ ready # <<>>
    /\ Head(ready).op = "worker_done"
    /\ ready' = Tail(ready)
    /\ IF Head(ready).kind = "returned"
       THEN /\ task_pc' = "wait_until_complete"
            /\ UNCHANGED <<status, stream_task, last_summary>>
       ELSE /\ status' = "error"
            /\ last_summary' = summary
            /\ stream_task' = "None"
            /\ task_pc' = "none"
    /\ UNCHANGED <<worker_pc, turns, stream_events, history, expires_at, service_call>>
    /\ UNCHANGED <<harnessVars, relayVars, execVars, schemaVars, scalerVars>>

\* _run_responses_stream after wait_until_complete returned: the summary is
\* read and, when there is one, recorded as the assistant turn.
RunResponsesStreamEnd ==
    /\ task_pc = "wait_until_complete"
    /\ wait_until_complete
    /\ IF summary # <<>>
       THEN /\ last_summary' = summary
            /\ history' = Append(history, AssistantTurn(summary[1]))
       ELSE UNCHANGED <<last_summary, history>>
    /\ status' = "completed"
    /\ stream_task' = "None"
    /\ task_pc' = "none"
    /\ UNCHANGED <<worker_pc, ready, turns, stream_events, expires_at, service_call>>
    /\ UNCHANGED <<harnessVars, relayVars, execVars, schemaVars, scalerVars>>

\* ------------------------------------------------------ schema_registry
\* Strings are sequences of characters. "a" and "7" stand for the letters
\* and digits, "." and "@" for the characters _INVALID_NAME_CHARS matches.
NameChars == {"a", "_", "-", "."}

DefaultLabel == <<"P", "l", "a", "n", "E", "x", "e", "S", "c", "h", "e", "m", "a">>

LabelLimit == 64

\* [0-9A-Za-z_-]
ValidChar(c) == c \notin {".", "@"}

\* _INVALID_NAME_CHARS.sub("_", name)
sub_invalid(name) == [i \in 1..Len(name) |-> IF ValidChar(name[i]) THEN name[i] ELSE "_"]

\* name.rstrip("_")
RECURSIVE rstrip(_)
rstrip(name) ==
    IF name = <<>> THEN name
    ELSE IF name[Len(name)] = "_" THEN rstrip(SubSeq(name, 1, Len(name) - 1))
    ELSE name

\* Mutant: strip("_") instead of rstrip("_"), leading underscores go too.
RECURSIVE lstrip(_)
lstrip(name) ==
    IF name = <<>> THEN name
    ELSE IF name[1] = "_" THEN lstrip(Tail(name))
    ELSE name

sanitize_schema_label_strip(raw, fb) ==
    LET name == IF raw = <<>> \/ raw[1] = <<>> THEN fb ELSE raw[1]
        sanitized == lstrip(rstrip(sub_invalid(name)))
    IN  IF sanitized # <<>> THEN sanitized
        ELSE IF lstrip(rstrip(sub_invalid(fb))) # <<>> THEN lstrip(rstrip(sub_invalid(fb)))
        ELSE DefaultLabel

\* sanitize_schema_label
sanitize_schema_label(raw, fb) ==
    LET name == IF raw = <<>> \/ raw[1] = <<>> THEN fb ELSE raw[1]
        sanitized == rstrip(sub_invalid(name))
    IN  IF sanitized # <<>> THEN sanitized
        ELSE IF rstrip(sub_invalid(fb)) # <<>> THEN rstrip(sub_invalid(fb))
        ELSE DefaultLabel

\* All strings over NameChars of length up to n.
RECURSIVE StringsUpTo(_)
StringsUpTo(n) ==
    IF n = 0 THEN {<<>>}
    ELSE LET shorter == StringsUpTo(n - 1)
         IN  shorter \cup {Append(str, c) : str \in shorter, c \in NameChars}

SanitizeUnused ==
    /\ raw_name = <<>>
    /\ fallback = <<>>
    /\ label = <<>>
    /\ relabel = <<>>

\* sanitize_schema_label(raw_name, fallback)
Sanitize ==
    /\ label = <<>>
    /\ label' = <<sanitize_schema_label(raw_name, fallback)>>
    /\ UNCHANGED <<raw_name, fallback, relabel, registry, reg_calls>>
    /\ UNCHANGED <<execVars, harnessVars, relayVars, serviceVars, validateVars, scalerVars>>

\* sanitize_schema_label(label, fallback), the function applied to its own output
SanitizeAgain ==
    /\ label # <<>>
    /\ relabel = <<>>
    /\ relabel' = <<sanitize_schema_label(label, fallback)>>
    /\ UNCHANGED <<raw_name, fallback, label, registry, reg_calls>>
    /\ UNCHANGED <<execVars, harnessVars, relayVars, serviceVars, validateVars, scalerVars>>

\* A name of n letters.
LongName(n) == [i \in 1..n |-> "a"]

\* model.__module__ and model.__name__ of the types that get registered; the
\* long names sit around the label limit.
Modules == {"m1", "m2"}

ClassNames == {<<"a">>, <<"_", "a">>, <<"_">>, LongName(LabelLimit), LongName(LabelLimit + 1)}

\* model.model_json_schema(): the document a type yields at one registration.
Documents == {"d1", "d2"}

\* _compute_registry_key
compute_registry_key(model) == <<model.module, model.name>>

RegistryKeys == {compute_registry_key(m) : m \in [module : Modules, name : ClassNames]}

SchemaRegistryEntry(id, model, qualified_name, sanitized_name, schema) ==
    [id |-> id, model |-> model, qualified_name |-> qualified_name,
     sanitized_name |-> sanitized_name, schema |-> schema]

\* _SCHEMA_REGISTRY = {}
RegistryInit ==
    /\ registry = [k \in RegistryKeys |-> <<>>]
    /\ reg_calls = <<>>

\* No type is ever registered (the other specifications).
RegistryUnused ==
    /\ registry = <<>>
    /\ reg_calls = <<>>

\* Mutant: the comparison with the existing entry is dropped, every call
\* builds and stores a new entry.
register_schema_always_new(model, schema) ==
    LET key == compute_registry_key(model)
        sanitized_name == sanitize_schema_label(<<model.name>>, model.name)
        entry == SchemaRegistryEntry(Len(reg_calls) + 1, model, key, sanitized_name, schema)
    IN  /\ registry' = [registry EXCEPT ![key] = <<entry>>]
        /\ reg_calls' = Append(reg_calls, [model |-> model, schema |-> schema,
                                          returned |-> entry])

\* register_schema; a new entry object is identified by the call that made it.
register_schema(model, schema) ==
    LET key == compute_registry_key(model)
        sanitized_name == sanitize_schema_label(<<model.name>>, model.name)
        existing == registry[key]
        entry == SchemaRegistryEntry(Len(reg_calls) + 1, model, key, sanitized_name, schema)
    IN  IF /\ existing # <<>>
           /\ existing[1].schema = schema
           /\ existing[1].sanitized_name = sanitized_name
        THEN /\ reg_calls' = Append(reg_calls, [model |-> model, schema |-> schema,
                                                returned |-> existing[1]])
             /\ UNCHANGED registry
        ELSE /\ registry' = [registry EXCEPT ![key] = <<entry>>]
             /\ reg_calls' = Append(reg_calls, [model |-> model, schema |-> schema,
                                               returned |-> entry])

\* get_schema_entry
get_schema_entry(model, schema) == register_schema(model, schema)

\* get_schema_entry(model)
GetSchemaEntry ==
    /\ Len(reg_calls) < MaxRegistrations
    /\ \E model \in [module : Modules, name : ClassNames], schema \in Documents :
          get_schema_entry(model, schema)
    /\ UNCHANGED <<raw_name, fallback, label, relabel>>
    /\ UNCHANGED <<execVars, harnessVars, relayVars, serviceVars, validateVars, scalerVars>>

\* register_schema(model)
RegisterSchema ==
    /\ Len(reg_calls) < MaxRegistrations
    /\ \E model \in [module : Modules, name : ClassNames], schema \in Documents :
          register_schema(model, schema)
    /\ UNCHANGED <<raw_name, fallback, label, relabel>>
    /\ UNCHANGED <<execVars, harnessVars, relayVars, serviceVars, validateVars, scalerVars>>

\* ------------------------------------------------- StrictResponseModel
FieldNames == 1..MaxFields

\* The annotations _derive_default tells apart; "other" is any annotation it
\* has no default for (a nested model, a bare list, Any, ...).
TypeKinds == {"enum", "list", "dict", "str", "int", "float", "bool", "other"}

\* cls.model_fields[name]: a required field of some annotation, or a field
\* that declares a default.
FieldInfos ==
    {[required |-> TRUE, annotation |-> k] : k \in TypeKinds}
        \cup {[required |-> FALSE, annotation |-> "str"]}

\* SchemaPolicy (required_fields is read by nothing in model_validate).
SchemaPolicy(allow_missing, default_overrides) ==
    [allow_missing |-> allow_missing, default_overrides |-> default_overrides]

Absent == "absent"
None == "None"

\* A payload: a dict giving each declared field a valid value, a value of the
\* wrong type, a value that itself lacks a nested required field, or nothing,
\* with or without an undeclared key; or something that is not a mapping.
PayloadValues == {Absent, "payload", "invalid", "nested_missing"}

NotAMapping == [mapping |-> FALSE, data |-> [f \in FieldNames |-> Absent], extra |-> FALSE]

\* _coerce_mapping: <<>> stands for its None.
coerce_mapping(o) == IF o.mapping THEN <<o>> ELSE <<>>

\* _derive_default
derive_default(field_name) ==
    LET field == cls[field_name]
    IN  IF ~field.required THEN "declared_default"
        ELSE CASE field.annotation = "enum" -> "first_member"
               [] field.annotation = "list" -> "[]"
               [] field.annotation = "dict" -> "{}"
               [] field.annotation = "str" -> "TBD"
               [] field.annotation = "int" -> "0"
               [] field.annotation = "float" -> "0.0"
               [] field.annotation = "bool" -> "False"
               [] OTHER -> None

\* _inject_defaults(data, field_names=...)
inject_defaults(mapping, field_names) ==
    [mapping EXCEPT !.data =
        [name \in FieldNames |->
            IF name \notin field_names \/ mapping.data[name] # Absent
            THEN mapping.data[name]
            ELSE IF name \in policy.default_overrides THEN "override"
            ELSE IF derive_default(name) # None THEN derive_default(name)
            ELSE Absent]]

\* exc.errors() of pydantic's structural validation, as (type, loc[0]) pairs.
ErrorsOf(prepared) ==
    IF ~prepared.mapping THEN {[type |-> "model_type", loc |-> 0]}
    ELSE {[type |-> "missing", loc |-> f] :
             f \in {g \in FieldNames :
                      \/ prepared.data[g] = Absent /\ cls[g].required
                      \/ prepared.data[g] = "nested_missing"}}
         \cup {[type |-> "invalid_type", loc |-> f] :
                 f \in {g \in FieldNames : prepared.data[g] = "invalid"}}

\* _collect_missing
collect_missing(errors) == {e.loc : e \in {x \in errors : x.type = "missing"}}

NoInstance == [fields |-> <<>>, extra |-> FALSE]

Returned(instance, passes) ==
    [kind |-> "instance", instance |-> instance, errors |-> {}, raised_by |-> 0,
     passes |-> passes]

Raised(kind, errors, pass) ==
    [kind |-> kind, instance |-> NoInstance, errors |-> errors, raised_by |-> pass,
     passes |-> pass]

\* model_post_init: with extras present it assigns to model_extra through
\* object.__setattr__; model_extra is a property of pydantic.BaseModel that
\* has no setter, so the assignment raises AttributeError.
model_post_init(instance, pass) ==
    IF instance.extra
    THEN Raised("AttributeError", {}, pass)
    ELSE Returned(instance, pass)

\* super().model_validate(prepared): pydantic validates the declared fields,
\* fills the declared defaults, keeps undeclared keys (extra="allow") and
\* runs model_post_init on the new instance.
super_model_validate(prepared, pass) ==
    IF ErrorsOf(prepared) # {}
    THEN Raised("ValidationError", ErrorsOf(prepared), pass)
    ELSE model_post_init(
             [fields |-> [f \in FieldNames |->
                             IF prepared.data[f] = Absent THEN "declared_default"
                             ELSE prepared.data[f]],
              extra |-> prepared.extra], pass)

\* model_validate
model_validate(o) ==
    LET mapping == coerce_mapping(o)
        prepared == IF mapping # <<>> /\ policy.default_overrides # {}
                    THEN inject_defaults(mapping[1], policy.default_overrides)
                    ELSE IF mapping # <<>> THEN mapping[1] ELSE o
        first == super_model_validate(prepared, 1)
        missing_fields == collect_missing(first.errors)
    IN  IF first.kind # "ValidationError" THEN first
        ELSE IF ~policy.allow_missing THEN first
        ELSE IF missing_fields = {} \/ mapping = <<>> THEN first
        ELSE super_model_validate(inject_defaults(mapping[1], missing_fields), 2)

NotCalled == [kind |-> "not_called", instance |-> NoInstance, errors |-> {},
              raised_by |-> 0, passes |-> 0]

NotDumped == [fields |-> <<>>, extra |-> FALSE, done |-> FALSE]

\* No validation runs (the other specifications).
ValidateUnused ==
    /\ cls = <<>>
    /\ policy = <<>>
    /\ obj = <<>>
    /\ validation = NotCalled
    /\ dumped = NotDumped

SchemaUnused == ValidateUnused /\ SanitizeUnused /\ RegistryUnused

OtherVars == <<execVars, harnessVars, relayVars, serviceVars, registryVars, scalerVars>>

\* cls.model_validate(obj)
ModelValidate ==
    /\ validation = NotCalled
    /\ validation' = model_validate(obj)
    /\ UNCHANGED <<cls, policy, obj, dumped, OtherVars>>

\* instance.model_dump(): the declared fields and whatever extras the
\* instance still holds.
ModelDump ==
    /\ validation.kind = "instance"
    /\ ~dumped.done
    /\ dumped' = [fields |-> validation.instance.fields, extra |-> validation.instance.extra,
                  done |-> TRUE]
    /\ UNCHANGED <<cls, policy, obj, validation, OtherVars>>

\* ------------------------------------------------ AdaptiveRefreshScaler
IntervalTier(min_staleness_seconds, interval_seconds) ==
    [min_staleness_seconds |-> min_staleness_seconds, interval_seconds |-> interval_seconds]

Intervals == {5, 10}

IntervalTiers ==
    {IntervalTier(m, i) : m \in 0..MaxThreshold, i \in Intervals}

\* The tier lists a caller may hand to __init__, the empty one included.
RECURSIVE TierListsUpTo(_)
TierListsUpTo(n) ==
    IF n = 0 THEN {<<>>}
    ELSE LET shorter == TierListsUpTo(n - 1)
         IN  shorter \cup {Append(l, tier) : l \in shorter, tier \in IntervalTiers}

\* list.sort(key=min_staleness_seconds): stable, equal keys keep their order.
RECURSIVE sort(_)
sort(l) ==
    IF l = <<>> THEN <<>>
    ELSE LET rest == sort(SubSeq(l, 1, Len(l) - 1))
             last == l[Len(l)]
             k == Cardinality({i \in 1..Len(rest) :
                                 rest[i].min_staleness_seconds <= last.min_staleness_seconds})
         IN  SubSeq(rest, 1, k) \o <<last>> \o SubSeq(rest, k + 1, Len(rest))

NoScalerCall == [op |-> "none", data_changed |-> FALSE, at |-> 0, staleness |-> 0,
                 raised |-> FALSE, value |-> 0]

\* AdaptiveRefreshScaler.__init__(tiers = arg)
ScalerInit(arg) ==
    /\ tiers = sort(arg)
    /\ last_change_time = 0
    /\ current_tier_index = 0
    /\ now = 0
    /\ scaler_call = NoScalerCall

\* No scaler exists (the other specifications).
ScalerUnused ==
    /\ tiers = <<>>
    /\ last_change_time = 0
    /\ current_tier_index = 0
    /\ now = 0
    /\ scaler_call = <<>>

\* self.tiers[index].interval_seconds with a 0-based index: the value, or
\* IndexError when the list has no such element.
IntervalAt(tier_index) ==
    IF tier_index + 1 \in 1..Len(tiers)
    THEN [raised |-> FALSE, value |-> tiers[tier_index + 1].interval_seconds]
    ELSE [raised |-> TRUE, value |-> 0]

\* Mutant: the comparison with the threshold is strict.
RECURSIVE find_tier_strict(_, _, _)
find_tier_strict(i, staleness, new_tier_index) ==
    IF i > Len(tiers) THEN new_tier_index
    ELSE IF staleness > tiers[i].min_staleness_seconds
    THEN find_tier_strict(i + 1, staleness, i - 1)
    ELSE new_tier_index

\* The loop of get_interval from the i-th tier on: the index moves up while
\* the staleness reaches the tier's threshold and the loop breaks at the
\* first tier it does not reach.
RECURSIVE find_tier(_, _, _)
find_tier(i, staleness, new_tier_index) ==
    IF i > Len(tiers) THEN new_tier_index
    ELSE IF staleness >= tiers[i].min_staleness_seconds
    THEN find_tier(i + 1, staleness, i - 1)
    ELSE new_tier_index

\* time passes
Tick ==
    /\ now < MaxClock
    /\ now' = now + 1
    /\ UNCHANGED <<tiers, last_change_time, current_tier_index, scaler_call>>
    /\ UNCHANGED <<execVars, harnessVars, relayVars, serviceVars, schemaVars>>

\* get_interval(data_changed)
GetInterval ==
    /\ scaler_call # <<>>
    /\ \E data_changed \in BOOLEAN :
         LET staleness == now - last_change_time IN
           IF data_changed
           THEN /\ last_change_time' = now
                /\ current_tier_index' = 0
                /\ scaler_call' = [op |-> "get_interval", data_changed |-> TRUE, at |-> now,
                                   staleness |-> staleness,
                                   raised |-> IntervalAt(0).raised,
                                   value |-> IntervalAt(0).value]
           ELSE /\ current_tier_index' = find_tier(1, staleness, 0)
                /\ scaler_call' = [op |-> "get_interval", data_changed |-> FALSE, at |-> now,
                                   staleness |-> staleness,
                                   raised |-> IntervalAt(find_tier(1, staleness, 0)).raised,
                                   value |-> IntervalAt(find_tier(1, staleness, 0)).value]
                /\ UNCHANGED last_change_time
    /\ UNCHANGED <<tiers, now>>
    /\ UNCHANGED <<execVars, harnessVars, relayVars, serviceVars, schemaVars>>

\* reset()
ScalerReset ==
    /\ scaler_call # <<>>
    /\ last_change_time' = now
    /\ current_tier_index' = 0
    /\ scaler_call' = [op |-> "reset", data_changed |-> FALSE, at |-> now,
                       staleness |-> now - last_change_time, raised |-> FALSE, value |-> 0]
    /\ UNCHANGED <<tiers, now>>
    /\ UNCHANGED <<execVars, harnessVars, relayVars, serviceVars, schemaVars>>

\* ------------------------------------------------------ specification: run
StaleAttempt == LLMAttempt("execute", 1, TRUE, WorkResult(1, 1), "none")

ModelLists == { [i \in 1..n |-> i] : n \in 1..MaxModels }

PlansFor(n) == { [j \in Models |-> IF j <= n THEN f[j] ELSE Unknown] : f \in [1..n -> Outcomes] }

InitRun ==
    /\ mode \in {"run", "run_async"}
    /\ llm_models \in ModelLists
    /\ should_stop_callback \in BOOLEAN
    /\ attempts \in {<<>>, <<StaleAttempt>>}
    /\ execute_functions = <<1>>
    /\ arity \in { [t \in Items |-> IF t = 1 THEN a ELSE 1] : a \in {1, 2} }
    /\ plan \in { [t \in Items |-> IF t = 1 THEN p ELSE [j \in Models |-> Unknown]] :
                    p \in PlansFor(Len(llm_models)) }
    /\ pc = [t \in Items |-> IF t = 1 THEN "idle" ELSE "unused"]
    /\ index = [t \in Items |-> 0]
    /\ attempt = [t \in Items |-> NoAttempt]
    /\ ret = [t \in Items |-> NoRet]
    /\ running = NotRunning
    /\ constructed = [t \in Items |-> <<>>]
    /\ invoked = [t \in Items |-> <<>>]
    /\ cb_calls = [t \in Items |-> <<>>]
    /\ max_concurrent = 0
    /\ semaphore = 0
    /\ waiters = <<>>
    /\ results = <<>>
    /\ batch_pc = "unused"
    /\ completion_order = <<>>
    /\ token_calls = <<>>
    /\ HarnessUnused
    /\ ServiceUnused
    /\ SchemaUnused
    /\ ScalerUnused

NextRun ==
    \/ \E t \in Items : RunBegin(t)
    \/ \E t \in Items : BeginAttempt(t)
    \/ \E t \in Items : FinishAttempt(t)

SpecRun == InitRun /\ [][NextRun]_vars

\* ----------------------------------------- specification: tokens
\* One invocation of run / run_async, with set_last_attempt_tokens called
\* before it (on the ledger of an earlier invocation) and after it.
NextTokens ==
    \/ \E t \in Items : RunBegin(t)
    \/ \E t \in Items : BeginAttempt(t)
    \/ \E t \in Items : FinishAttempt(t)
    \/ SetLastAttemptTokens

SpecTokens == InitRun /\ [][NextTokens]_vars

\* ---------------------------------------------- specification: batch
WorkLists == { [i \in 1..m |-> i] : m \in 0..MaxItems }

InitBatch ==
    /\ mode = "batch"
    /\ llm_models \in { [i \in 1..n |-> i] : n \in 1..MaxBatchModels }
    /\ should_stop_callback \in BOOLEAN
    /\ attempts = <<>>
    /\ execute_functions \in WorkLists
    /\ arity \in { [t \in Items |-> IF t = b THEN 2 ELSE 1] : b \in 0..Len(execute_functions) }
    /\ plan = [t \in Items |-> [j \in Models |-> Unknown]]
    /\ pc = [t \in Items |-> "unused"]
    /\ index = [t \in Items |-> 0]
    /\ attempt = [t \in Items |-> NoAttempt]
    /\ ret = [t \in Items |-> NoRet]
    /\ running = NotRunning
    /\ constructed = [t \in Items |-> <<>>]
    /\ invoked = [t \in Items |-> <<>>]
    /\ cb_calls = [t \in Items |-> <<>>]
    /\ max_concurrent \in 1..MaxConcurrent
    /\ semaphore = 0
    /\ waiters = <<>>
    /\ results = <<>>
    /\ batch_pc = "idle"
    /\ completion_order = <<>>
    /\ token_calls = <<>>
    /\ HarnessUnused
    /\ ServiceUnused
    /\ SchemaUnused
    /\ ScalerUnused

NextBatch ==
    \/ BatchBegin
    \/ \E t \in Items : Acquire(t)
    \/ \E t \in Items : RunAsyncBegin(t)
    \/ \E t \in Items : BeginAttempt(t)
    \/ \E t \in Items : FinishAttempt(t)
    \/ BatchReturn

SpecBatch == InitBatch /\ [][NextBatch]_vars

\* The scheduler keeps running ready tasks and every awaited backend call ends.
FairSpecBatch == SpecBatch /\ WF_vars(NextBatch)

\* ------------------------------------------ specification: harness
\* A producer drives the harness API directly while a relay pulls.
NextDelta == <<ToString(Len(calls) + 1)>>

ProducerInit ==
    /\ Len(calls) < MaxCalls
    /\ emit_init
    /\ UNCHANGED <<relayVars, execVars, serviceVars, schemaVars, scalerVars>>

ProducerChunk ==
    /\ Len(calls) < MaxCalls
    /\ \E kind \in Kinds : emit_chunk(kind, NextDelta)
    /\ UNCHANGED <<relayVars, execVars, serviceVars, schemaVars, scalerVars>>

ProducerComplete ==
    /\ Len(calls) < MaxCalls
    /\ \E usage \in UsageArgs : emit_complete(usage)
    /\ UNCHANGED <<relayVars, execVars, serviceVars, schemaVars, scalerVars>>

ProducerError ==
    /\ Len(calls) < MaxCalls
    /\ emit_error("failed")
    /\ UNCHANGED <<relayVars, execVars, serviceVars, schemaVars, scalerVars>>

ProducerReset ==
    /\ Len(calls) < MaxCalls
    /\ reset_for_response(response_id + 1)
    /\ UNCHANGED <<relayVars, execVars, serviceVars, schemaVars, scalerVars>>

\* No engine exists: the per-item variables hold nothing.
ExecUnused ==
    /\ mode = "none"
    /\ llm_models = <<1>>
    /\ should_stop_callback = FALSE
    /\ attempts = <<>>
    /\ execute_functions = <<>>
    /\ arity = <<>>
    /\ plan = <<>>
    /\ pc = <<>>
    /\ index = <<>>
    /\ attempt = <<>>
    /\ ret = <<>>
    /\ running = NotRunning
    /\ constructed = <<>>
    /\ invoked = <<>>
    /\ cb_calls = <<>>
    /\ max_concurrent = 0
    /\ semaphore = 0
    /\ waiters = <<>>
    /\ results = <<>>
    /\ batch_pc = "unused"
    /\ completion_order = <<>>
    /\ token_calls = <<>>

InitHarness ==
    ExecUnused /\ HarnessInit /\ RelayInit /\ ServiceUnused /\ SchemaUnused /\ ScalerUnused

NextHarness ==
    \/ ProducerInit
    \/ ProducerChunk
    \/ ProducerComplete
    \/ ProducerError
    \/ ProducerReset
    \/ RelayConnect
    \/ RelayGet
    \/ RelayWake
    \/ RelayHeartbeat

SpecHarness == InitHarness /\ [][NextHarness]_vars

\* -------------------------------------------- specification: relay
\* One generator is attached to the harness for the whole life of the
\* conversation (the queue's single consumer) while the producer emits and
\* resets in any order.
RelayAttach ==
    /\ relay_pc = "idle"
    /\ RelayConnect

NextRelay ==
    \/ ProducerInit
    \/ ProducerChunk
    \/ ProducerComplete
    \/ ProducerError
    \/ ProducerReset
    \/ RelayAttach
    \/ RelayGet
    \/ RelayWake
    \/ RelayHeartbeat

SpecRelay == InitHarness /\ [][NextRelay]_vars

\* ----------------------------------------- specification: validate
\* One model_validate call for every small type, policy and payload.
InitValidate ==
    /\ ExecUnused /\ HarnessInit /\ RelayInit /\ ServiceUnused
    /\ SanitizeUnused /\ RegistryUnused /\ ScalerUnused
    /\ cls \in [FieldNames -> FieldInfos]
    /\ policy \in {SchemaPolicy(a, d) : a \in BOOLEAN, d \in SUBSET FieldNames}
    /\ obj \in {NotAMapping}
              \cup [mapping : {TRUE}, data : [FieldNames -> PayloadValues], extra : BOOLEAN]
    /\ validation = NotCalled
    /\ dumped = NotDumped

NextValidate ==
    \/ ModelValidate
    \/ ModelDump

SpecValidate == InitValidate /\ [][NextValidate]_vars

\* ----------------------------------------- specification: sanitize
\* sanitize_schema_label on every short raw name (or None) and fallback.
InitSanitize ==
    /\ ExecUnused /\ HarnessInit /\ RelayInit /\ ServiceUnused
    /\ ValidateUnused /\ RegistryUnused /\ ScalerUnused
    /\ raw_name \in {<<>>} \cup {<<str>> : str \in StringsUpTo(MaxNameLen)}
    /\ fallback \in StringsUpTo(MaxNameLen)
    /\ label = <<>>
    /\ relabel = <<>>

NextSanitize ==
    \/ Sanitize
    \/ SanitizeAgain

SpecSanitize == InitSanitize /\ [][NextSanitize]_vars

\* ------------------------------------------------ claims: sanitize
\* The character the substitution puts in place of c.
Replaced(c) == IF ValidChar(c) THEN c ELSE "_"

\* lbl is name with every invalid character replaced by "_" and exactly the
\* trailing run of "_" removed.
IsSanitizedOf(lbl, name) ==
    /\ Len(lbl) <= Len(name)
    /\ \A i \in 1..Len(lbl) : lbl[i] = Replaced(name[i])
    /\ lbl = <<>> \/ lbl[Len(lbl)] # "_"
    /\ \A i \in (Len(lbl) + 1)..Len(name) : Replaced(name[i]) = "_"

\* name has a character that survives sanitizing.
Usable(name) == \E i \in 1..Len(name) : Replaced(name[i]) # "_"

RawGiven == raw_name # <<>> /\ raw_name[1] # <<>>

\* C17 as stated: the sanitized raw name whenever a raw name is given, the
\* sanitized fallback only when the raw name is empty or absent, the default
\* label when that result is empty; and the function is idempotent.
C17_AsStated ==
    /\ label # <<>> =>
          LET name == IF RawGiven THEN raw_name[1] ELSE fallback
          IN  IF Usable(name) THEN IsSanitizedOf(label[1], name)
              ELSE label[1] = DefaultLabel
    /\ relabel # <<>> => relabel = label

\* C17 (amended): the label is the sanitized raw name when the raw name is
\* given and sanitizes to something non-empty; otherwise (raw name absent,
\* empty, or sanitizing to nothing) it is the sanitized fallback, and the
\* default label when that is empty too; leading underscores are kept; the
\* function is idempotent on its own output.
C17_SanitizeLabel ==
    /\ label # <<>> =>
          IF RawGiven /\ Usable(raw_name[1]) THEN IsSanitizedOf(label[1], raw_name[1])
          ELSE IF Usable(fallback) THEN IsSanitizedOf(label[1], fallback)
          ELSE label[1] = DefaultLabel
    /\ relabel # <<>> => relabel = label

\* A raw name with a leading underscore and an invalid last character.
C17_Witness ==
    /\ raw_name = <<(<<"_", "a", ".">>)>>
    /\ label = <<(<<"_", "a">>)>>
    /\ relabel = label

\* ----------------------------------------- specification: registry
\* Any sequence of registrations of any of the types, with any document.
InitRegistry ==
    /\ ExecUnused /\ HarnessInit /\ RelayInit /\ ServiceUnused
    /\ ValidateUnused /\ SanitizeUnused /\ RegistryInit /\ ScalerUnused

NextRegistry ==
    \/ RegisterSchema
    \/ GetSchemaEntry

SpecRegistry == InitRegistry /\ [][NextRegistry]_vars

\* ------------------------------------------------ claims: registry
\* The calls before call i of past that registered the same type identity.
PriorCalls(past, i) ==
    {j \in 1..(i - 1) :
        compute_registry_key(past[j].model) = compute_registry_key(past[i].model)}

LastPrior(past, i) ==
    CHOOSE j \in PriorCalls(past, i) : \A m \in PriorCalls(past, i) : m <= j

\* Call i registers a type whose document and label are those of its last
\* registration.
UnchangedSince(past, i) ==
    /\ PriorCalls(past, i) # {}
    /\ past[LastPrior(past, i)].schema = past[i].schema
    /\ past[LastPrior(past, i)].returned.sanitized_name =
          sanitize_schema_label(<<past[i].model.name>>, past[i].model.name)

\* An unchanged re-registration returned the object of the last registration,
\* every other call a new object with the call's document; the registry
\* holds, under each key, the entry of that key's last registration.
RegistryCachesEntries ==
    /\ \A i \in 1..Len(reg_calls) :
          IF UnchangedSince(reg_calls, i)
          THEN reg_calls[i].returned = reg_calls[LastPrior(reg_calls, i)].returned
          ELSE /\ reg_calls[i].returned.id = i
               /\ reg_calls[i].returned.schema = reg_calls[i].schema
               /\ reg_calls[i].returned.qualified_name =
                     compute_registry_key(reg_calls[i].model)
    /\ \A k \in RegistryKeys :
          LET of_k == {i \in 1..Len(reg_calls) : compute_registry_key(reg_calls[i].model) = k}
          IN  IF of_k = {} THEN registry[k] = <<>>
              ELSE /\ Len(registry[k]) = 1
                   /\ registry[k][1].qualified_name = k
                   /\ \E i \in of_k : /\ \A m \in of_k : m <= i
                                     /\ registry[k][1] = reg_calls[i].returned

\* An unchanged re-registration leaves the registry as it was, a changed or
\* first one touches the entry of its own key only.
RegistrationTouchesOwnEntry ==
    Len(reg_calls') = Len(reg_calls) + 1 =>
        LET i == Len(reg_calls')
            key == compute_registry_key(reg_calls'[i].model)
        IN  IF UnchangedSince(reg_calls', i) THEN registry' = registry
            ELSE /\ registry'[key] = <<reg_calls'[i].returned>>
                 /\ \A k \in RegistryKeys \ {key} : registry'[k] = registry[k]

\* C15: after any sequence of register_schema/get_schema_entry calls,
\* registering a type whose document and label are unchanged since its last
\* registration returns the same cached entry object and leaves the registry
\* unchanged; a changed registration replaces that type's entry only; the
\* registry holds at most one entry per type identity.
C15_RegistrationIdempotent ==
    /\ []RegistryCachesEntries
    /\ [][RegistrationTouchesOwnEntry]_vars

\* A type registered, another type registered, the first registered again
\* unchanged: the third call returns the first call's object.
C15_Witness ==
    /\ Len(reg_calls) = 3
    /\ compute_registry_key(reg_calls[1].model) # compute_registry_key(reg_calls[2].model)
    /\ UnchangedSince(reg_calls, 3)
    /\ LastPrior(reg_calls, 3) = 1
    /\ reg_calls[3].returned.id = 1

LabelWellFormed(lbl) ==
    /\ lbl # <<>>
    /\ Len(lbl) <= LabelLimit
    /\ \A i \in 1..Len(lbl) : ValidChar(lbl[i])

\* C16: every entry stored in the registry has a sanitized label that is
\* non-empty, at most 64 characters long and made of [A-Za-z0-9_-] only.
C16_StoredLabelsWellFormed ==
    \A k \in RegistryKeys :
        registry[k] # <<>> => LabelWellFormed(registry[k][1].sanitized_name)

\* ----------------------------------------- specification: scaler
\* A scaler built on any tier list, polled and reset as time passes.
InitScaler ==
    /\ ExecUnused /\ HarnessInit /\ RelayInit /\ ServiceUnused /\ SchemaUnused
    /\ \E arg \in TierListsUpTo(MaxTiers) : ScalerInit(arg)

NextScaler ==
    \/ Tick
    \/ GetInterval
    \/ ScalerReset

SpecScaler == InitScaler /\ [][NextScaler]_vars

\* ================================================== claims: scaler
\* The 0-based indices of the tiers whose threshold the staleness reaches.
TiersReached(staleness) ==
    {i \in 0..(Len(tiers) - 1) : tiers[i + 1].min_staleness_seconds <= staleness}

HighestReached(staleness) ==
    CHOOSE i \in TiersReached(staleness) : \A j \in TiersReached(staleness) : j <= i

TiersSorted ==
    \A i \in 1..Len(tiers) : \A j \in 1..Len(tiers) :
        i < j => tiers[i].min_staleness_seconds <= tiers[j].min_staleness_seconds

\* The last call was get_interval(True) or reset(): the staleness is zero
\* as of that call and the tier index is 0.
ChangeResets ==
    (scaler_call.op = "reset" \/ (scaler_call.op = "get_interval" /\ scaler_call.data_changed))
        => /\ last_change_time = scaler_call.at
           /\ current_tier_index = 0

InitService ==
    ExecUnused /\ HarnessInit /\ RelayInit /\ ServiceInit /\ SchemaUnused /\ ScalerUnused

NextService ==
    \/ \E conversation_id \in ConversationIds : append_message(conversation_id)
    \/ \E conversation_id \in ConversationIds : get_harness(conversation_id)
    \/ RunResponsesStreamBegin
    \/ WorkerOpen
    \/ WorkerEvent
    \/ WorkerEnd
    \/ WorkerExcept
    \/ LoopEmit
    \/ RunResponsesStreamResume
    \/ RunResponsesStreamEnd
    \/ RelayConnect
    \/ RelayGet
    \/ RelayWake
    \/ RelayHeartbeat

SpecService == InitService /\ [][NextService]_vars

\* ------------------------------------------ specification: session
\* One conversation session without a listener: the API calls, the stream task,
\* its worker thread and the event loop.
NextSession ==
    \/ \E conversation_id \in ConversationIds : append_message(conversation_id)
    \/ \E conversation_id \in ConversationIds : get_harness(conversation_id)
    \/ RunResponsesStreamBegin
    \/ WorkerOpen
    \/ WorkerEvent
    \/ WorkerEnd
    \/ WorkerExcept
    \/ LoopEmit
    \/ RunResponsesStreamResume
    \/ RunResponsesStreamEnd

SpecSession == InitService /\ [][NextSession]_vars

\* ======================================================== claims: run
\* Position (1-based) of the first descriptor whose plan for item t is o; 0 if none.
FirstWith(t, o) ==
    LET S == {i \in 1..Len(llm_models) : plan[t][llm_models[i]] = o}
    IN IF S = {} THEN 0 ELSE CHOOSE i \in S : \A k \in S : i <= k

\* The work of item t raises the cancellation signal before any descriptor succeeds.
StopsFirst(t) ==
    /\ FirstWith(t, "work_stop") # 0
    /\ FirstWith(t, "ok") = 0 \/ FirstWith(t, "work_stop") < FirstWith(t, "ok")

\* The ledger holds one attempt per descriptor of the first n, in descriptor order.
LedgerCovers(n) ==
    /\ Len(attempts) = n
    /\ \A i \in 1..n : attempts[i].llm_model = llm_models[i]

SingleCallDone(t) == mode \in {"run", "run_async"} /\ pc[t] = "done" /\ arity[t] = 1

\* C1 as stated: with no stop-callback, run returns the result of the first
\* descriptor (list order) whose construction and work both succeed, whatever the
\* other descriptors do; with no such descriptor it raises the exhaustion failure
\* and the ledger holds one Attempt per descriptor in order.
C1_AsStated ==
    \A t \in Items :
      (SingleCallDone(t) /\ ~should_stop_callback) =>
        IF FirstWith(t, "ok") # 0
        THEN ret[t] = RetResult(WorkResult(t, llm_models[FirstWith(t, "ok")]))
        ELSE ret[t].kind = "exhausted" /\ LedgerCovers(Len(llm_models))

\* C1 amended: the same, provided no descriptor's work raises the cancellation
\* signal before the first success; when one does, run ends with that signal.
C1_FirstSuccessOrExhausted ==
    \A t \in Items :
      (SingleCallDone(t) /\ ~should_stop_callback) =>
        IF StopsFirst(t)
        THEN ret[t] = RetStop
        ELSE IF FirstWith(t, "ok") # 0
        THEN ret[t] = RetResult(WorkResult(t, llm_models[FirstWith(t, "ok")]))
        ELSE /\ ret[t].kind = "exhausted"
             /\ LedgerCovers(Len(llm_models))
             /\ Len(ret[t].summary) = Len(llm_models)

\* C1 witness: a run without callback fell through two failed descriptors and
\* returned the third one's result.
C1_Witness ==
    /\ SingleCallDone(1) /\ ~should_stop_callback
    /\ FirstWith(1, "ok") = 3
    /\ ret[1] = RetResult(WorkResult(1, llm_models[3]))

\* C2: when run returns a result, with k the first descriptor that succeeds, the
\* ledger holds exactly k attempts, attempts 1..k-1 failed, attempt k succeeded
\* and carries the returned result, and no descriptor after k was constructed or
\* invoked.
C2_AttemptCountIsFirstSuccess ==
    \A t \in Items :
      (SingleCallDone(t) /\ ret[t].kind = "result") =>
        LET k == FirstWith(t, "ok") IN
          /\ k # 0
          /\ Len(attempts) = k
          /\ \A i \in 1..(k - 1) : ~attempts[i].success
          /\ attempts[k].success
          /\ attempts[k].result = ret[t].value
          /\ attempts[k].llm_model = llm_models[k]
          /\ constructed[t] = [i \in 1..k |-> llm_models[i]]
          /\ \A i \in 1..Len(invoked[t]) :
               \E p \in 1..k : llm_models[p] = invoked[t][i]

\* C2 witness: a run started on a stale ledger, returned the second descriptor's result.
C2_Witness ==
    /\ SingleCallDone(1) /\ ret[1].kind = "result"
    /\ FirstWith(1, "ok") = 2 /\ Len(llm_models) = 3
    /\ Len(attempts) = 2

\* C3: when the stop-callback raises the cancellation signal after attempt i, the
\* run ends at once with that signal: nothing after descriptor i is constructed or
\* invoked, no exhaustion failure is raised, and a successful attempt's result is
\* not returned.
C3_CallbackStopEndsRun ==
    \A t \in Items :
      \A c \in 1..Len(cb_calls[t]) :
        cb_calls[t][c].answer = "stop" =>
          /\ c = Len(cb_calls[t])
          /\ pc[t] = "done"
          /\ ret[t] = RetStop
          /\ Len(constructed[t]) = cb_calls[t][c].attempt_index + 1
          /\ \A i \in 1..Len(invoked[t]) :
               \E p \in 1..(cb_calls[t][c].attempt_index + 1) : llm_models[p] = invoked[t][i]

\* C3 witness: the callback raised the signal after a successful first attempt of
\* a three-descriptor list, and the run ended with the signal.
C3_Witness ==
    /\ mode \in {"run", "run_async"} /\ Len(llm_models) = 3
    /\ Len(cb_calls[1]) = 1
    /\ cb_calls[1][1].answer = "stop" /\ cb_calls[1][1].last_attempt.success
    /\ ret[1] = RetStop

\* The descriptors of the ledger, in ledger order.
LedgerModels == [i \in 1..Len(attempts) |-> attempts[i].llm_model]

\* C4 as stated: however a run ends, every descriptor that was tried has exactly
\* one Attempt in the ledger (a run never ends mid-attempt).
C4_AsStated ==
    \A t \in Items : SingleCallDone(t) => LedgerModels = constructed[t]

\* C4 amended: every descriptor that was tried has exactly one Attempt, except
\* that when the work itself raises the cancellation signal the run ends with
\* that signal mid-attempt and that last descriptor has no Attempt.
C4_OneAttemptPerTriedDescriptor ==
    \A t \in Items :
      SingleCallDone(t) =>
        LET n == Len(constructed[t])
            cut == n > 0 /\ plan[t][constructed[t][n]] = "work_stop"
        IN /\ cut => ret[t] = RetStop
           /\ LedgerModels = (IF cut THEN SubSeq(constructed[t], 1, n - 1) ELSE constructed[t])

\* C4 witness: a run ended by the callback's signal after two recorded attempts.
C4_Witness ==
    /\ SingleCallDone(1) /\ ret[1] = RetStop
    /\ Len(cb_calls[1]) = 2 /\ cb_calls[1][2].answer = "stop"
    /\ Len(attempts) = 2 /\ Len(constructed[1]) = 2

\* The descriptors in seq.
InSeq(seq) == {seq[i] : i \in 1..Len(seq)}

\* C19: in the ledger left by run, attempt i refers to descriptor i; its stage
\* is the construction stage exactly when constructing that descriptor failed,
\* and then the work was never invoked for it, and the execution stage
\* otherwise; its success flag is true only for an execution-stage attempt
\* whose work returned. With [fails construction, work raises, succeeds] and
\* no interference of the callback the ledger is [construction/false,
\* execution/false, execution/true] and the third result is returned.
C19_LedgerStagesInOrder ==
    \A t \in Items :
      SingleCallDone(t) =>
        /\ \A i \in 1..Len(attempts) :
             LET j == llm_models[i] IN
               /\ attempts[i].llm_model = j
               /\ attempts[i].stage \in {"create", "execute"}
               /\ attempts[i].stage = "create" <=> plan[t][j] = "create_fail"
               /\ attempts[i].stage = "create" => j \notin InSeq(invoked[t])
               /\ attempts[i].stage = "execute" => j \in InSeq(invoked[t])
               /\ attempts[i].success <=>
                     (attempts[i].stage = "execute" /\ plan[t][j] = "ok")
               /\ attempts[i].success => attempts[i].result = WorkResult(t, j)
        /\ ( /\ Len(llm_models) = 3
             /\ plan[t][llm_models[1]] = "create_fail"
             /\ plan[t][llm_models[2]] = "work_fail"
             /\ plan[t][llm_models[3]] = "ok"
             /\ \A c \in 1..Len(cb_calls[t]) : cb_calls[t][c].answer = "none" )
           => /\ [i \in 1..Len(attempts) |-> <<attempts[i].stage, attempts[i].success>>]
                   = << <<"create", FALSE>>, <<"execute", FALSE>>, <<"execute", TRUE>> >>
              /\ ret[t] = RetResult(WorkResult(t, llm_models[3]))

\* C19 witness: the scenario of the claim ran to its end.
C19_Witness ==
    /\ SingleCallDone(1)
    /\ Len(attempts) = 3
    /\ attempts[1].stage = "create" /\ ~attempts[1].success
    /\ attempts[2].stage = "execute" /\ ~attempts[2].success
    /\ attempts[3].stage = "execute" /\ attempts[3].success
    /\ ret[1] = RetResult(WorkResult(1, llm_models[3]))

\* C20: when the stop-callback raises an exception other than the
\* cancellation signal after attempt i, the run ends at once with that
\* exception: no later descriptor is tried, no exhaustion failure is raised,
\* and the ledger holds exactly the i attempts made so far, attempt i being
\* the one the callback was given.
C20_CallbackErrorEndsRun ==
    \A t \in Items :
      \A c \in 1..Len(cb_calls[t]) :
        cb_calls[t][c].answer = "error" =>
          LET i == cb_calls[t][c].attempt_index + 1 IN
            /\ c = Len(cb_calls[t])
            /\ pc[t] = "done"
            /\ ret[t] = RetCallbackError
            /\ constructed[t] = [p \in 1..i |-> llm_models[p]]
            /\ InSeq(invoked[t]) \subseteq {llm_models[p] : p \in 1..i}
            /\ LedgerCovers(i)
            /\ attempts[i] = cb_calls[t][c].last_attempt
            /\ \A p \in 1..i : attempts[p].exception \in {"none", "create_error", "work_error"}

\* C20 witness: the callback raised after the second of three descriptors
\* had failed, and the run ended with the callback's exception.
C20_Witness ==
    /\ mode \in {"run", "run_async"} /\ Len(llm_models) = 3
    /\ Len(cb_calls[1]) = 2
    /\ cb_calls[1][2].answer = "error" /\ ~cb_calls[1][2].last_attempt.success
    /\ ret[1] = RetCallbackError
    /\ Len(attempts) = 2

\* C21: after an invocation of run / run_async has ended, however it ended
\* (result, exhaustion, cancellation, rejection of the work callable), the
\* ledger holds only attempts made by that invocation: every attempt in it is
\* the attempt of a descriptor this invocation constructed, in that order.
C21_LedgerOnlyOfLastInvocation ==
    \A t \in Items :
      (mode \in {"run", "run_async"} /\ pc[t] = "done") =>
        /\ Len(attempts) <= Len(constructed[t])
        /\ \A i \in 1..Len(attempts) : attempts[i].llm_model = constructed[t][i]

\* What a set_last_attempt_tokens step may do to the ledger: the length and
\* every attempt but the last stay; the last one, when it exists and is
\* successful, gets the three token fields of the call and keeps its other
\* fields; otherwise nothing changes; the call does not raise.
TokensStepFrame ==
    token_calls' # token_calls =>
        LET n == Len(attempts)
            call == token_calls'[Len(token_calls')]
        IN  /\ ~call.raised
            /\ Len(attempts') = n
            /\ \A i \in 1..(n - 1) : attempts'[i] = attempts[i]
            /\ IF n > 0 /\ attempts[n].success
               THEN /\ attempts'[n].input_tokens = <<call.input_tokens>>
                    /\ attempts'[n].output_tokens = <<call.output_tokens>>
                    /\ attempts'[n].total_tokens =
                          (IF call.total_tokens = <<>>
                           THEN <<call.input_tokens + call.output_tokens>>
                           ELSE call.total_tokens)
                    /\ \A f \in {"stage", "llm_model", "success", "result", "exception"} :
                          attempts'[n][f] = attempts[n][f]
               ELSE attempts' = attempts

\* C22: set_last_attempt_tokens changes only the three token fields of the
\* last attempt, and only when it exists and is successful (total is the given
\* total, or input + output when none is given); on an empty ledger or a
\* failed last attempt it raises nothing and changes nothing; it never changes
\* another attempt nor the ledger length.
C22_TokensOnlyOnLastSuccess == [][TokensStepFrame]_vars

\* C22 witness: after a run that fell through one failed descriptor, the
\* second attempt carries a given total of zero and the first is untouched.
C22_Witness ==
    /\ SingleCallDone(1) /\ Len(attempts) = 2
    /\ token_calls # <<>>
    /\ token_calls[1].input_tokens = 1 /\ token_calls[1].output_tokens = 1
    /\ attempts[2].success /\ attempts[2].total_tokens = <<0>>
    /\ attempts[2].input_tokens = <<1>>
    /\ attempts[1].total_tokens = <<>>

\* What the callback answered at each of its calls during the call of item t.
AnswersOf(t) == [c \in 1..Len(cb_calls[t]) |-> cb_calls[t][c].answer]

\* Descriptor, stage and success flag of each attempt of a ledger.
LedgerShape(ledger) ==
    [i \in 1..Len(ledger) |-> <<ledger[i].llm_model, ledger[i].stage, ledger[i].success>>]

ExpectedRet(t) ==
    LET n == Len(cb_calls[t])
        said == IF n = 0 THEN "none" ELSE cb_calls[t][n].answer
    IN IF said = "stop" THEN RetStop
       ELSE IF said = "error" THEN RetCallbackError
       ELSE IF StopsFirst(t) THEN RetStop
       ELSE IF FirstWith(t, "ok") # 0
       THEN RetResult(WorkResult(t, llm_models[FirstWith(t, "ok")]))
       ELSE [ret[t] EXCEPT !.kind = "exhausted", !.value = NoValue]

\* C6: run_batch_async returns one slot per input item, slot i holding the
\* outcome of item i (its result, or the exception it raised) whatever the order
\* of completion; every item is run to its own end whatever the others did, and
\* the list is returned only once all items have ended.
C6_BatchSlotsInInputOrder ==
    batch_pc = "returned" =>
      /\ Len(results) = Len(execute_functions)
      /\ \A i \in 1..Len(execute_functions) :
           LET t == execute_functions[i] IN
             /\ pc[t] = "done"
             /\ constructed[t] # <<>>
             /\ results[i] = ExpectedRet(t)
             /\ results[i].kind \in {"result", "exhausted", "stop", "callback_error"}

\* C6 witness: the second item ended before the first; the first failed on every
\* descriptor, the second returned a result, and the slots follow input order.
C6_Witness ==
    /\ batch_pc = "returned"
    /\ completion_order = <<2, 1>>
    /\ results[1].kind = "exhausted"
    /\ results[2] = RetResult(WorkResult(2, llm_models[1]))

\* The rows of an exhaustion failure are one per descriptor, in descriptor order.
RowsPerDescriptor(rows) ==
    /\ Len(rows) = Len(llm_models)
    /\ \A k \in 1..Len(rows) : rows[k][2] = llm_models[k]

\* C27: the concurrency bound is the only mutable state the run_async calls of
\* one run_batch_async share: under every interleaving, the exhaustion failure
\* stored in slot i enumerates exactly the attempts of item i, one per
\* descriptor, in descriptor order.
C27_ExhaustionListsOwnAttempts ==
    batch_pc = "returned" =>
      \A i \in 1..Len(results) :
        results[i].kind = "exhausted" => RowsPerDescriptor(results[i].summary)

\* ==================================================== claims: harness
LastIdx(h, op) ==
    LET S == {i \in 1..Len(h) : h[i].op = op}
    IN  IF S = {} THEN 0 ELSE CHOOSE i \in S : \A j \in S : j <= i

\* The calls made on the harness since its last reset_for_response.
SinceReset(h) == SubSeq(h, LastIdx(h, "reset") + 1, Len(h))

\* The calls of the turn that the last emit_complete closed, up to that call.
BeforeLastComplete(h) == SinceReset(SubSeq(h, 1, LastIdx(h, "complete") - 1))

RECURSIVE DeltasOf(_, _)
DeltasOf(h, kind) ==
    IF h = <<>> THEN <<>>
    ELSE (IF Head(h).op = "chunk" /\ Head(h).kind = kind THEN <<Head(h).delta>> ELSE <<>>)
         \o DeltasOf(Tail(h), kind)

TerminalsIn(h) == Cardinality({i \in 1..Len(h) : h[i].op \in {"complete", "error"}})

\* The turn that was started has run to its end: the stream task finished
\* (completed or error), or it ended with an exception before its try block.
TurnOver ==
    \/ status \in {"completed", "error"}
    \/ status = "streaming" /\ stream_task = "done"

\* C7: for every turn whose stream is started, whatever the backend does
\* (normal end, a failure event in the stream, an exception from the stream,
\* failure to obtain the backend), the harness emits exactly one terminal
\* event for that turn: a complete or an error, never both, never two, never
\* none.
C7_ExactlyOneTerminalPerTurn == TurnOver => TerminalsIn(SinceReset(calls)) = 1

\* C8: in the sequence of events one listener receives from the relay, no
\* init or chunk event follows a complete or error event, whatever the
\* interleaving of producer emits (also those after the terminal event) and
\* relay pulls.
C8_NoChunkAfterTerminal ==
    \A i \in 1..Len(delivered) : \A j \in 1..Len(delivered) :
        (i < j /\ IsTerminal(delivered[i]))
            => delivered[j].event \notin {"stream.init", "stream.chunk"}

\* The listener got the terminal event and the generator stopped while an
\* init or chunk emitted after it for the same turn sits in the queue.
C8_Witness ==
    /\ relay_pc = "stopped"
    /\ delivered # <<>>
    /\ IsTerminal(delivered[Len(delivered)])
    /\ queue # <<>>
    /\ Head(queue).event \in {"stream.init", "stream.chunk"}
    /\ Head(queue).responseId = delivered[Len(delivered)].responseId

\* The step is an emit_complete call made after an earlier emit_complete of
\* the same turn.
LaterEmitComplete ==
    /\ Len(calls') = Len(calls) + 1
    /\ calls'[Len(calls')].op = "complete"
    /\ \E i \in 1..Len(SinceReset(calls)) : SinceReset(calls)[i].op = "complete"

\* C9: emit_complete is idempotent within a turn: after the first
\* emit_complete any later emit_complete call, with any usage argument,
\* enqueues no further event and leaves the summary, the buffers and the
\* completion flag unchanged.
C9_EmitCompleteIdempotent ==
    [][LaterEmitComplete =>
          UNCHANGED <<queue, summary, text_parts, reasoning_parts, json_parts,
                      completed>>]_vars

\* C10: after any sequence of emit_chunk and reset_for_response calls,
\* emit_complete produces a summary whose text is the concatenation, in
\* emission order, of exactly the "text" deltas emitted since the last
\* reset_for_response (the empty string if none) and whose json_chunks are
\* exactly the "json" deltas since that reset, in order; no delta of one
\* kind is in the buffer of another kind.
C10_SummaryIsTurnDeltas ==
    /\ text_parts = DeltasOf(SinceReset(calls), "text")
    /\ reasoning_parts = DeltasOf(SinceReset(calls), "reasoning")
    /\ json_parts = DeltasOf(SinceReset(calls), "json")
    /\ summary # <<>> =>
          /\ summary[1].text = Join(DeltasOf(BeforeLastComplete(calls), "text"))
          /\ summary[1].json_chunks = DeltasOf(BeforeLastComplete(calls), "json")

\* A text delta before the reset, a json delta after it, then emit_complete:
\* the summary has empty text and that one json fragment.
C10_Witness ==
    /\ Len(calls) = 4
    /\ calls[1].op = "chunk" /\ calls[1].kind = "text"
    /\ calls[2].op = "reset"
    /\ calls[3].op = "chunk" /\ calls[3].kind = "json"
    /\ calls[4].op = "complete"
    /\ summary # <<>>
    /\ summary[1].text = <<>>
    /\ summary[1].json_chunks = <<calls[3].delta>>

\* ====================================================== claims: relay
\* The turn (response id) a call belongs to: the harness starts with id 1 and
\* every reset_for_response of the producer moves to the next id.
RidAt(h, k) == 1 + Cardinality({i \in 1..k : h[i].op = "reset"})

\* The event the k-th call put on the queue, recomputed from the calls.
EventAt(h, k) ==
    LET c == h[k]
        t == SinceReset(SubSeq(h, 1, k - 1))
        s == ConversationSummary(Join(DeltasOf(t, "text")),
                                 IF DeltasOf(t, "reasoning") # <<>>
                                 THEN <<JoinWith(Newline, DeltasOf(t, "reasoning"))>>
                                 ELSE <<>>,
                                 DeltasOf(t, "json"),
                                 IF c.usage = "None" THEN "empty" ELSE c.usage)
    IN  [event |-> CASE c.op = "init" -> "stream.init"
                     [] c.op = "chunk" -> "stream.chunk"
                     [] c.op = "complete" -> "stream.complete"
                     [] OTHER -> "stream.error",
         responseId |-> RidAt(h, k),
         kind |-> c.kind,
         delta |-> c.delta,
         summary |-> IF c.op = "complete" THEN <<s>> ELSE <<>>,
         error |-> IF c.op = "error" THEN "failed" ELSE ""]

\* The events enqueued for turn r, in emission order.
RECURSIVE EnqueuedFrom(_, _, _)
EnqueuedFrom(h, r, k) ==
    IF k > Len(h) THEN <<>>
    ELSE (IF h[k].op # "reset" /\ RidAt(h, k) = r THEN <<EventAt(h, k)>> ELSE <<>>)
         \o EnqueuedFrom(h, r, k + 1)

Enqueued(h, r) == EnqueuedFrom(h, r, 1)

ForwardedFor(r) ==
    SelectSeq(delivered, LAMBDA e : e.event # "heartbeat" /\ e.responseId = r)

IsPrefix(a, b) == Len(a) <= Len(b) /\ a = SubSeq(b, 1, Len(a))

\* What the listener got for every turn is a prefix of what was enqueued for
\* it, and a terminal event is the last thing the listener got.
ForwardedIsPrefix ==
    /\ \A r \in 1..response_id : IsPrefix(ForwardedFor(r), Enqueued(calls, r))
    /\ \A i \in 1..Len(delivered) : IsTerminal(delivered[i]) => i = Len(delivered)
    /\ relay_pc = "stopped" <=> (delivered # <<>> /\ IsTerminal(delivered[Len(delivered)]))

\* The step yields a heartbeat to the listener.
YieldsHeartbeat ==
    /\ Len(delivered') = Len(delivered) + 1
    /\ delivered'[Len(delivered')].event = "heartbeat"

\* C11: what the relay forwards for a turn, heartbeats removed, is a prefix of
\* the events enqueued in the harness for that turn, in the same order, none
\* lost or duplicated, ending at the first complete/error after which the
\* relay pulls nothing more; a heartbeat is forwarded only when no event
\* arrived on the awaited queue within the interval, and a heartbeat never
\* ends the stream.
C11_RelayForwardsFifoPrefix ==
    /\ []ForwardedIsPrefix
    /\ [][relay_pc = "stopped" => (delivered' = delivered /\ relay_pc' = "stopped")]_vars
    /\ [][YieldsHeartbeat =>
             /\ relay_wait # 0
             /\ relay_wait # queue_id \/ queue = <<>>
             /\ relay_pc' = "pulling"]_vars

\* The listener got a heartbeat, then the turn's events up to the terminal
\* one, and an event emitted after the terminal one stays in the queue.
C11_Witness ==
    /\ relay_pc = "stopped"
    /\ Len(delivered) >= 3
    /\ delivered[1].event = "heartbeat"
    /\ delivered[2].event = "stream.init"
    /\ queue # <<>>

\* ================================================ claims: reset, error
\* The step is a call of op on the harness.
CallStep(op) ==
    /\ Len(calls') = Len(calls) + 1
    /\ calls'[Len(calls')].op = op

\* The step hands an event of the queue to the listener.
DeliversEvent ==
    /\ Len(delivered') = Len(delivered) + 1
    /\ delivered'[Len(delivered')].event # "heartbeat"

FirstTerminal(events) ==
    LET S == {k \in 1..Len(events) : IsTerminal(events[k])}
    IN  IF S = {} THEN 0 ELSE CHOOSE k \in S : \A m \in S : k <= m

\* A listener that got the error event of a turn got, before it and in
\* emission order, every event enqueued for that turn before the error.
ErrorAfterChunks ==
    \A i \in 1..Len(delivered) :
        delivered[i].event = "stream.error" =>
            LET r == delivered[i].responseId
                enq == Enqueued(calls, r)
            IN  /\ FirstTerminal(enq) # 0
                /\ enq[FirstTerminal(enq)].event = "stream.error"
                /\ ForwardedFor(r) = SubSeq(enq, 1, FirstTerminal(enq))

\* C25: emit_error enqueues exactly one error event, behind everything
\* enqueued before it, and marks the turn completed so that
\* wait_until_complete returns true; the buffers keep the deltas accumulated
\* so far; and the chunks emitted before the error reach the listener in
\* order before the error event.
C25_ErrorEndsTurnKeepsChunks ==
    /\ [][CallStep("error") =>
             /\ Len(queue') = Len(queue) + 1
             /\ SubSeq(queue', 1, Len(queue)) = queue
             /\ queue'[Len(queue')].event = "stream.error"
             /\ queue'[Len(queue')].responseId = response_id
             /\ wait_until_complete'
             /\ UNCHANGED <<text_parts, reasoning_parts, json_parts, summary, response_id>>]_vars
    /\ []ErrorAfterChunks

\* C25 witness: two chunks, then the error; the listener got the three in
\* that order and the text buffer still holds the delta.
C25_Witness ==
    /\ Len(delivered) = 3
    /\ delivered[1].event = "stream.chunk" /\ delivered[1].kind = "text"
    /\ delivered[2].event = "stream.chunk"
    /\ delivered[3].event = "stream.error"
    /\ completed
    /\ text_parts # <<>>

\* =================================================== claims: validate
Called == validation # NotCalled

\* The required fields the payload does not carry.
MissingRequired == {f \in FieldNames : cls[f].required /\ obj.data[f] = Absent}

\* C12: for every type whose policy has allow_missing = false, whatever
\* default overrides the policy carries, and every payload that lacks at
\* least one required field, model_validate raises a validation failure and
\* returns no instance (stated for payloads without undeclared keys).
C12_StrictPolicyRaisesOnMissing ==
    (Called /\ ~policy.allow_missing /\ obj.mapping /\ ~obj.extra /\ MissingRequired # {})
        => validation.kind = "ValidationError"

\* C13: model_validate makes at most two structural validation passes per
\* call, and when the re-validation of the patched payload fails too, the
\* error raised to the caller is the one of the first pass, not the one of
\* the second.
C13_AtMostTwoPassesOriginalError ==
    Called =>
        /\ validation.passes <= 2
        /\ (validation.kind = "ValidationError" /\ validation.passes = 2)
               => validation.raised_by = 1

\* The type-driven default the repair gives a missing field of a given
\* annotation.
TypeDrivenDefault(annotation) ==
    CASE annotation = "enum" -> "first_member"
      [] annotation = "list" -> "[]"
      [] annotation = "dict" -> "{}"
      [] annotation = "str" -> "TBD"
      [] annotation = "int" -> "0"
      [] annotation = "float" -> "0.0"
      [] annotation = "bool" -> "False"

\* The payload is a mapping without undeclared keys whose supplied values are
\* all valid, it lacks a required field, and every required field it lacks
\* has an override or an annotation with a type-driven default.
Repairable ==
    /\ policy.allow_missing
    /\ obj.mapping
    /\ ~obj.extra
    /\ \A f \in FieldNames : obj.data[f] \in {Absent, "payload"}
    /\ MissingRequired # {}
    /\ \A f \in MissingRequired :
          f \in policy.default_overrides \/ cls[f].annotation # "other"

\* C14: when model_validate repairs a payload under an allow-missing policy,
\* every missing required field receives the policy's override if there is
\* one, otherwise the type-driven default, the repaired payload validates,
\* and every field the payload supplied keeps the payload's value.
C14_RepairFillsOverrideOrTypeDefault ==
    (Called /\ Repairable) =>
        /\ validation.kind = "instance"
        /\ \A f \in MissingRequired :
              validation.instance.fields[f] =
                  IF f \in policy.default_overrides THEN "override"
                  ELSE TypeDrivenDefault(cls[f].annotation)
        /\ \A f \in FieldNames :
              obj.data[f] # Absent => validation.instance.fields[f] = obj.data[f]

\* The payload passes structural validation as it is.
StructurallyValid ==
    /\ obj.mapping
    /\ \A f \in FieldNames :
          obj.data[f] = "payload" \/ (obj.data[f] = Absent /\ ~cls[f].required)

\* C18: for every payload that validates and carries keys not declared on
\* the type, model_validate accepts it and the returned instance holds
\* exactly the declared fields: no undeclared key stays in the instance or
\* shows in its dump.
C18_UndeclaredKeysAcceptedAndDropped ==
    (Called /\ StructurallyValid /\ obj.extra) =>
        /\ validation.kind = "instance"
        /\ ~validation.instance.extra
        /\ dumped.done => ~dumped.extra

\* ==================================================== claims: session
\* The emits handed to the loop and not yet run, in the order they will run.
EmitsIn(q) == SelectSeq(q, LAMBDA c : c.op # "worker_done")

\* Every emit of the current turn, in the order it was issued: those the loop
\* has applied to the harness, then those it still has to run.
Issued == SinceReset(calls) \o EmitsIn(ready)

\* A step of the worker thread.
WorkerStep == worker_pc # "idle" /\ (worker_pc' # worker_pc \/ stream_events' # stream_events)

\* A step that resets the harness.
ResetStep == calls' = Append(calls, Call("reset", "", <<>>, "None"))

\* The stream task passes wait_until_complete and reads the summary.
SummaryReadStep == task_pc = "wait_until_complete" /\ task_pc' = "none"

\* The summary holds every delta applied to the harness in this turn.
HoldsEveryDelta(s) ==
    /\ s.text = Join(DeltasOf(SinceReset(calls), "text"))
    /\ s.json_chunks = DeltasOf(SinceReset(calls), "json")
    /\ s.reasoning = IF DeltasOf(SinceReset(calls), "reasoning") = <<>> THEN <<>>
                     ELSE <<JoinWith(Newline, DeltasOf(SinceReset(calls), "reasoning"))>>

Producing ==
    \/ stream_task = "pending"
    \/ task_pc \notin {"none", "raised"}
    \/ worker_pc # "idle"
    \/ EmitsIn(ready) # <<>>

\* get_harness creates a stream task (the only call that resets the harness
\* and returns it).
StartStep == ResetStep /\ service_call'[1] = "get_harness"

RejectedAppend ==
    /\ service_call' # service_call
    /\ service_call'[1] = "append_message"
    /\ service_call'[3] # "metadata"

\* append_message goes through (the only call that resets the harness and
\* returns the metadata).
AcceptedAppend == ResetStep /\ service_call'[1] = "append_message"

\* C30: append_message on an unknown conversation id, or on a session whose
\* stream task is still running, ends with an error and leaves the session as
\* it was (response id, status, history, expiry, stream task, the harness
\* buffers, summary and queue); it goes through only for a known session with
\* no running stream task, and then the response id is one never used before,
\* the harness is in its reset state on a new queue, the status is 'created'
\* and the history is longer by exactly one user turn.
C30_AppendRejectedOrOneUserTurn ==
    [][/\ RejectedAppend =>
            /\ service_call'[2] \notin Sessions \/ stream_task = "pending"
            /\ UNCHANGED <<harnessVars, status, stream_task, task_pc, worker_pc, ready,
                           history, last_summary, expires_at>>
       /\ AcceptedAppend =>
            /\ service_call'[2] \in Sessions
            /\ stream_task # "pending"
            /\ service_call'[3] = "metadata"
            /\ response_id' \notin 1..response_id
            /\ text_parts' = <<>> /\ reasoning_parts' = <<>> /\ json_parts' = <<>>
            /\ summary' = <<>> /\ ~completed'
            /\ queue' = <<>> /\ queue_id' # queue_id
            /\ status' = "created"
            /\ history' = Append(history, UserTurn)
            /\ UNCHANGED <<stream_task, task_pc, worker_pc, ready, last_summary>>
       /\ (service_call' # service_call /\ service_call'[1] = "append_message") =>
            (service_call'[3] = "metadata" <=>
               (service_call'[2] \in Sessions /\ stream_task # "pending"))]_vars

\* C30 witness: the first message after the prompt was appended and is being
\* streamed, and a further append_message was refused because of that stream.
C30_Witness ==
    /\ history = <<UserTurn, UserTurn>>
    /\ response_id = 2
    /\ stream_task = "pending"
    /\ worker_pc = "events"
    /\ service_call = ServiceCall("append_message", 1,
                                  "ValueError: Conversation response still streaming")

====
